---- MODULE Spec2Model ----
(***************************************************************************)
(* env-audit: scanning a source tree for environment-variable references   *)
(* (src/env_audit.py) and the add-variable tool (src/mcp_server.py).       *)
(*                                                                         *)
(* Text is modelled as sequences of one-character strings, so that length, *)
(* substring, prefix and ordering tests are computed as Python computes    *)
(* them.  An optional value (Python's None or a value) is a sequence of    *)
(* length 0 or 1: None is <<>>, a value v is <<v>>.                        *)
(***************************************************************************)
EXTENDS Integers, Sequences, FiniteSets, TLC

----------------------------------------------------------------------------
(* Characters and strings                                                  *)

LOWER ==
  <<"a","b","c","d","e","f","g","h","i","j","k","l","m","n","o","p","q","r","s","t","u","v","w","x","y","z">>

UPPER ==
  <<"A","B","C","D","E","F","G","H","I","J","K","L","M","N","O","P","Q","R","S","T","U","V","W","X","Y","Z">>

(* The characters of the model in code-point order.  "BQ" stands for the   *)
(* backquote character (code point 96).                                    *)
CHARS ==
  <<" ","#","$","'","(",")",",","-",".","/",
    "0","1","2","3","4","5","6","7","8","9",":","=",
    "A","B","C","D","E","F","G","H","I","J","K","L","M",
    "N","O","P","Q","R","S","T","U","V","W","X","Y","Z","_","BQ",
    "a","b","c","d","e","f","g","h","i","j","k","l","m",
    "n","o","p","q","r","s","t","u","v","w","x","y","z","{","}">>

IndexOf(seq, x) ==
  IF \E i \in 1..Len(seq) : seq[i] = x
  THEN CHOOSE i \in 1..Len(seq) : seq[i] = x
  ELSE 0

(* str.upper(), one character.                                             *)
UpperChar(c) ==
  IF IndexOf(LOWER, c) > 0 THEN UPPER[IndexOf(LOWER, c)] ELSE c

(* str.upper()                                                             *)
Upper(s) ==
  [i \in 1..Len(s) |-> UpperChar(s[i])]

(* Python's  sub in s                                                      *)
Contains(sub, s) ==
  \E i \in 0..(Len(s) - Len(sub)) : SubSeq(s, i + 1, i + Len(sub)) = sub

(* str.startswith(prefix)                                                  *)
StartsWith(s, prefix) ==
  /\ Len(s) >= Len(prefix)
  /\ SubSeq(s, 1, Len(prefix)) = prefix

(* Python's  a < b  on str: code points, left to right, a proper prefix    *)
(* first.                                                                  *)
StrLess(a, b) ==
  \E k \in 1..(Len(b)) :
     /\ \A j \in 1..(k - 1) : j <= Len(a) /\ a[j] = b[j]
     /\ \/ Len(a) = k - 1
        \/ Len(a) >= k /\ IndexOf(CHARS, a[k]) < IndexOf(CHARS, b[k])

None == << >>

Some(v) == << v >>

----------------------------------------------------------------------------
(* Tables of src/env_audit.py                                              *)

CATEGORIES ==
  << [category |-> "database", prefixes |-> <<
       <<"D","A","T","A","B","A","S","E">>,
       <<"D","B","_">>,
       <<"P","O","S","T","G","R","E","S">>,
       <<"M","Y","S","Q","L">>,
       <<"M","O","N","G","O">>,
       <<"R","E","D","I","S">>,
       <<"S","Q","L">>
     >>],
     [category |-> "auth", prefixes |-> <<
       <<"A","U","T","H">>,
       <<"J","W","T">>,
       <<"S","E","C","R","E","T">>,
       <<"T","O","K","E","N">>,
       <<"P","A","S","S","W","O","R","D">>,
       <<"A","P","I","_","K","E","Y">>,
       <<"O","A","U","T","H">>,
       <<"S","E","S","S","I","O","N">>,
       <<"C","R","E","D","E","N","T","I","A","L">>
     >>],
     [category |-> "api", prefixes |-> <<
       <<"A","P","I","_">>,
       <<"E","N","D","P","O","I","N","T">>,
       <<"U","R","L">>,
       <<"H","O","S","T">>,
       <<"P","O","R","T">>,
       <<"B","A","S","E","_","U","R","L">>
     >>],
     [category |-> "cloud", prefixes |-> <<
       <<"A","W","S","_">>,
       <<"G","C","P","_">>,
       <<"A","Z","U","R","E","_">>,
       <<"S","3","_">>,
       <<"C","L","O","U","D">>
     >>],
     [category |-> "email", prefixes |-> <<
       <<"S","M","T","P">>,
       <<"E","M","A","I","L">>,
       <<"M","A","I","L">>,
       <<"S","E","N","D","G","R","I","D">>,
       <<"S","E","S","_">>
     >>],
     [category |-> "logging", prefixes |-> <<
       <<"L","O","G","_">>,
       <<"D","E","B","U","G">>,
       <<"S","E","N","T","R","Y">>,
       <<"N","E","W","R","E","L","I","C">>
     >>],
     [category |-> "feature", prefixes |-> <<
       <<"F","E","A","T","U","R","E","_">>,
       <<"E","N","A","B","L","E","_">>,
       <<"D","I","S","A","B","L","E","_">>,
       <<"F","L","A","G","_">>
     >>] >>

SENSITIVE_KEYWORDS ==
  {<<"S","E","C","R","E","T">>,
   <<"K","E","Y">>,
   <<"P","A","S","S","W","O","R","D">>,
   <<"T","O","K","E","N">>,
   <<"C","R","E","D","E","N","T","I","A","L">>,
   <<"P","R","I","V","A","T","E">>,
   <<"A","U","T","H">>}

SKIP_VARS ==
  {<<"H","O","M","E">>,
   <<"P","A","T","H">>,
   <<"U","S","E","R">>,
   <<"S","H","E","L","L">>,
   <<"P","W","D">>,
   <<"T","E","R","M">>,
   <<"L","A","N","G">>,
   <<"L","C","_","A","L","L">>,
   <<"B","A","S","H","_","S","O","U","R","C","E">>,
   <<"B","A","S","H","_","L","I","N","E","N","O">>,
   <<"F","U","N","C","N","A","M","E">>,
   <<"L","I","N","E","N","O">>,
   <<"R","A","N","D","O","M">>,
   <<"S","E","C","O","N","D","S">>,
   <<"I","F","S">>,
   <<"P","S","1">>,
   <<"P","S","2">>,
   <<"P","S","4">>,
   <<"O","L","D","P","W","D">>,
   <<"H","O","S","T","N","A","M","E">>,
   <<"H","O","S","T","T","Y","P","E">>,
   <<"O","S","T","Y","P","E">>,
   <<"U","I","D">>,
   <<"E","U","I","D">>,
   <<"G","R","O","U","P","S">>,
   <<"P","P","I","D">>,
   <<"S","H","E","L","L","O","P","T","S">>,
   <<"B","A","S","H","O","P","T","S">>,
   <<"R","E","D">>,
   <<"G","R","E","E","N">>,
   <<"Y","E","L","L","O","W">>,
   <<"B","L","U","E">>,
   <<"P","U","R","P","L","E">>,
   <<"C","Y","A","N">>,
   <<"W","H","I","T","E">>,
   <<"N","C">>,
   <<"R","E","S","E","T">>,
   <<"B","O","L","D">>,
   <<"S","C","R","I","P","T","_","D","I","R">>,
   <<"P","R","O","J","E","C","T","_","R","O","O","T">>,
   <<"D","I","R">>,
   <<"R","O","O","T">>,
   <<"B","A","S","E","_","D","I","R">>}

(* is_sensitive(var_name)                                                  *)
is_sensitive(var_name) ==
  LET var_upper == Upper(var_name)
  IN  \E kw \in SENSITIVE_KEYWORDS : Contains(kw, var_upper)

(* The loops of categorize_var from category c on: the first category, in  *)
(* the table's order, one of whose prefixes occurs in var_upper.           *)
RECURSIVE CategorizeFrom(_, _)
CategorizeFrom(var_upper, c) ==
  IF c > Len(CATEGORIES) THEN "general"
  ELSE IF \E p \in 1..Len(CATEGORIES[c].prefixes) :
             Contains(CATEGORIES[c].prefixes[p], var_upper)
       THEN CATEGORIES[c].category
       ELSE CategorizeFrom(var_upper, c + 1)

(* A variant of the loops that lets a later category replace an earlier    *)
(* one.                                                                    *)
RECURSIVE CategorizeBack(_, _)
CategorizeBack(var_upper, c) ==
  IF c < 1 THEN "general"
  ELSE IF \E p \in 1..Len(CATEGORIES[c].prefixes) :
             Contains(CATEGORIES[c].prefixes[p], var_upper)
       THEN CATEGORIES[c].category
       ELSE CategorizeBack(var_upper, c - 1)

categorize_var_LastMatch(var_name) ==
  CategorizeBack(Upper(var_name), Len(CATEGORIES))

(* categorize_var(var_name)                                                *)
categorize_var(var_name) ==
  CategorizeFrom(Upper(var_name), 1)

----------------------------------------------------------------------------
(* State                                                                   *)

VARIABLES
  pc,        \* scan_directory: "walk" (between files), "merge" (in the loop
             \* of line 259), "done" (returned)
  tree,      \* the in-scope files os.walk has yielded so far, in walk order
  file_vars, \* scan_directory: the entries of file_vars not yet merged
  all_vars,  \* scan_directory: the ordered dict all_vars, as a sequence of
             \* records in insertion order
  cat_name,  \* categorize_var: the argument of the last call, None before it
  category,  \* categorize_var: what the last call returned
  disk,      \* the project directory: [exists, writable, files], files the
             \* in-scope files in walk order, each [path, readable, utf8,
             \* lines] with lines as content.split('\n') gives them
  adds,      \* env_audit_add: the number of calls so far
  request,   \* env_audit_add: the arguments of the last call
  response,  \* env_audit_add: what the last call returned
  cli_pc,    \* main: "idle" (not started), "root" (line 462, the arguments
             \* parsed), "mode" (line 486, the scan done), "exit"
  args,      \* main: the parsed arguments
  existing,  \* main: the set check_existing_env returned
  checked,   \* main: what run_check returned, None before the call
  stdout,    \* main: what was printed to standard output
  stderr,    \* main: what was printed to standard error, message by message
  outfile,   \* main: the file this run wrote for -o outside the scanned
             \* files
  exit_code, \* main: the exit status, None while running
  previous   \* the earlier runs of main on the directory, oldest first:
             \* for each the path its -o wrote with success, or None

scanVars == << pc, tree, file_vars, all_vars >>

catVars == << cat_name, category >>

addVars == << adds, request, response >>

cliVars ==
  << cli_pc, args, existing, checked, stdout, stderr, outfile, exit_code,
     previous >>

vars == << scanVars, catVars, disk, addVars, cliVars >>

----------------------------------------------------------------------------
(* Source text.  A line is the sequence of the references it holds, left   *)
(* to right; a reference is a record [form, name, dflt] standing for the   *)
(* text below, N the name and d the default text (dflt = None: the part in *)
(* brackets is absent):                                                    *)
(*   environ_get      os.environ.get("N"[, "d"])                           *)
(*   environ_get_expr os.environ.get("N", expr)     expr not a literal     *)
(*   getenv           os.getenv("N"[, "d"])                                *)
(*   getenv_expr      os.getenv("N", expr)          expr not a literal     *)
(*   environ_idx      os.environ["N"]                                      *)
(*   process_env      process.env.N[ || "d"]        also &&, ??            *)
(*   process_env_idx  process.env["N"]                                     *)
(*   go_getenv        os.Getenv("N")                                       *)
(*   rust_var         env::var("N")                                        *)
(*   ruby_idx         ENV["N"][ || "d"]                                    *)
(*   ruby_fetch       ENV.fetch("N"[, "d"])                                *)
(*   sh_dash          ${N:-d}                                              *)
(*   sh_assign        ${N:=d}                                              *)
(*   sh_bare          $N                                                   *)
(*   sh_brace         ${N}                                                 *)
(*   env_call         env("N"[, "d"])                                      *)
(*   getEnv_call      getEnv("N"[, "d"])                                   *)
(*   assign           N=d   (at the start of the line when it is the       *)
(*                           line's first reference, else after other text)*)
(*   assign_sp        N = d (blanks around the sign)                       *)
(*   export           export N=d                                           *)
(*   comment          # N   (N any text; of the patterns only \$\{?N\}? is  *)
(*                           looked for in it)                             *)
(*   text             N     (N any text without a reference)               *)
(* N is a maximal run of [A-Z0-9_] starting with a capital; d holds no     *)
(* quote, brace or blank and no reference of its own.                      *)

Ref(form, name, dflt) == [form |-> form, name |-> name, dflt |-> dflt]

(* A regex match: group 1 and the text of the default group (None when the *)
(* pattern has no such group or the group did not take part).              *)
Match(name, raw) == [name |-> name, raw |-> raw]

(* Group 1 of every pattern: a name of the form [A-Z][A-Z0-9_]*.           *)
WellFormed(n) ==
  /\ Len(n) >= 1
  /\ n[1] \in { UPPER[k] : k \in 1..Len(UPPER) }
  /\ \A k \in 1..Len(n) :
        n[k] \in { UPPER[j] : j \in 1..Len(UPPER) }
                 \cup { "0", "1", "2", "3", "4", "5", "6", "7", "8", "9", "_" }

(* The match of a pattern on a reference of a form it recognises.          *)
MatchIf(cond, it, raw) ==
  IF cond /\ WellFormed(it.name) THEN << Match(it.name, raw) >> ELSE << >>

(* One definition per entry of PATTERNS: the matches (at most one) of the  *)
(* pattern on reference it; first says that it is the line's first         *)
(* reference.                                                              *)

\* os\.environ\.get\(["']N["'](?:\s*,\s*["']([^"']*)["'])?\)
Pattern01(it, first) == MatchIf(it.form = "environ_get", it, it.dflt)

\* os\.getenv\(["']N["'](?:\s*,\s*["']([^"']*)["'])?\)
Pattern02(it, first) == MatchIf(it.form = "getenv", it, it.dflt)

\* os\.environ\[["']N["']
Pattern03(it, first) == MatchIf(it.form = "environ_idx", it, None)

\* process\.env\.N\s*(?:\|\||&&|\?\?)\s*["']([^"']*)["']
Pattern04(it, first) ==
  MatchIf(it.form = "process_env" /\ it.dflt # None, it, it.dflt)

\* process\.env\.N
Pattern05(it, first) == MatchIf(it.form = "process_env", it, None)

\* process\.env\[["']N["']
Pattern06(it, first) == MatchIf(it.form = "process_env_idx", it, None)

\* os\.Getenv\(["']N["']
Pattern07(it, first) == MatchIf(it.form = "go_getenv", it, None)

\* env::var\(["']N["']
Pattern08(it, first) == MatchIf(it.form = "rust_var", it, None)

\* ENV\[["']N["']\]\s*\|\|\s*["']([^"']*)["']
Pattern09(it, first) ==
  MatchIf(it.form = "ruby_idx" /\ it.dflt # None, it, it.dflt)

\* ENV\.fetch\(["']N["'](?:\s*,\s*["']([^"']*)["'])?\)
Pattern10(it, first) == MatchIf(it.form = "ruby_fetch", it, it.dflt)

\* ENV\[["']N["']
Pattern11(it, first) == MatchIf(it.form = "ruby_idx", it, None)

\* \$\{N:-([^}]*)\}
Pattern12(it, first) == MatchIf(it.form = "sh_dash", it, it.dflt)

\* \$\{N:=([^}]*)\}
Pattern13(it, first) == MatchIf(it.form = "sh_assign", it, it.dflt)

(* The matches of \$\{?N in a text, left to right: where the names start, *)
(* and each name as the longest run of [A-Z0-9_].                          *)
DollarNames(text) ==
  LET upper == { UPPER[k] : k \in 1..Len(UPPER) }
      word  == upper \cup { "0", "1", "2", "3", "4", "5", "6", "7", "8", "9", "_" }
      from(i) == IF i < Len(text) /\ text[i + 1] = "{" THEN i + 2 ELSE i + 1
      starts == { from(i) : i \in { j \in 1..Len(text) :
                                       /\ text[j] = "$"
                                       /\ from(j) <= Len(text)
                                       /\ text[from(j)] \in upper } }
      last(s) == CHOOSE e \in s..Len(text) :
                   /\ \A k \in s..e : text[k] \in word
                   /\ e < Len(text) => text[e + 1] \notin word
      nth(n) == CHOOSE s \in starts : Cardinality({ t \in starts : t < s }) = n - 1
  IN  [n \in 1..Cardinality(starts) |-> SubSeq(text, nth(n), last(nth(n)))]

\* \$\{?N\}?   (the braces are optional: it matches the "${N" of ${N:-d})
Pattern14(it, first) ==
  IF it.form = "comment"
  THEN LET names == DollarNames(it.name)
       IN  [n \in 1..Len(names) |-> Match(names[n], None)]
  ELSE MatchIf(it.form \in {"sh_dash", "sh_assign", "sh_bare", "sh_brace"}, it, None)

\* (?:get)?[Ee]nv\(["']N["'](?:\s*,\s*["']([^"']*)["'])?\)
\* ("env(" also ends "os.getenv(" and "os.Getenv(")
Pattern15(it, first) ==
  MatchIf(it.form \in {"env_call", "getEnv_call", "getenv", "go_getenv"},
          it, it.dflt)

\* ^\s*-?\s*N=([^\s]*)
Pattern16(it, first) == MatchIf(it.form = "assign" /\ first, it, it.dflt)

\* \$\{N:-([^}]*)\}
Pattern17(it, first) == MatchIf(it.form = "sh_dash", it, it.dflt)

\* \$\{N
Pattern18(it, first) ==
  MatchIf(it.form \in {"sh_dash", "sh_assign", "sh_brace"}, it, None)

(* PATTERNS: the default group index (None or 2) and the number of groups  *)
(* of each pattern, in the order of the list.                              *)
PATTERNS ==
  << [default_group |-> Some(2), groups |-> 2],
     [default_group |-> Some(2), groups |-> 2],
     [default_group |-> None,    groups |-> 1],
     [default_group |-> Some(2), groups |-> 2],
     [default_group |-> None,    groups |-> 1],
     [default_group |-> None,    groups |-> 1],
     [default_group |-> None,    groups |-> 1],
     [default_group |-> None,    groups |-> 1],
     [default_group |-> Some(2), groups |-> 2],
     [default_group |-> Some(2), groups |-> 2],
     [default_group |-> None,    groups |-> 1],
     [default_group |-> Some(2), groups |-> 2],
     [default_group |-> Some(2), groups |-> 2],
     [default_group |-> None,    groups |-> 1],
     [default_group |-> Some(2), groups |-> 2],
     [default_group |-> Some(2), groups |-> 2],
     [default_group |-> Some(2), groups |-> 2],
     [default_group |-> None,    groups |-> 1] >>

(* The matches of pattern p on one reference.                              *)
PatternMatch(p, it, first) ==
  CASE p = 1  -> Pattern01(it, first)
    [] p = 2  -> Pattern02(it, first)
    [] p = 3  -> Pattern03(it, first)
    [] p = 4  -> Pattern04(it, first)
    [] p = 5  -> Pattern05(it, first)
    [] p = 6  -> Pattern06(it, first)
    [] p = 7  -> Pattern07(it, first)
    [] p = 8  -> Pattern08(it, first)
    [] p = 9  -> Pattern09(it, first)
    [] p = 10 -> Pattern10(it, first)
    [] p = 11 -> Pattern11(it, first)
    [] p = 12 -> Pattern12(it, first)
    [] p = 13 -> Pattern13(it, first)
    [] p = 14 -> Pattern14(it, first)
    [] p = 15 -> Pattern15(it, first)
    [] p = 16 -> Pattern16(it, first)
    [] p = 17 -> Pattern17(it, first)
    [] p = 18 -> Pattern18(it, first)

(* The sequences of a sequence, end to end.                                *)
RECURSIVE Concat(_)
Concat(seqs) ==
  IF seqs = << >> THEN << >> ELSE Head(seqs) \o Concat(Tail(seqs))

(* re.finditer(pattern, line): the matches of pattern p on a line, left to *)
(* right.  A reference gives one match at most, but a comment.             *)
finditer(p, line) ==
  LET found == SelectSeq([i \in 1..Len(line) |-> PatternMatch(p, line[i], i = 1)],
                         LAMBDA ms : ms # << >>)
  IN  IF \A i \in 1..Len(found) : Len(found[i]) = 1
      THEN [k \in 1..Len(found) |-> found[k][1]]
      ELSE Concat(found)

(* The matches of pattern p on a line, each with its pattern.              *)
Tagged(p, line) ==
  LET ms == finditer(p, line)
  IN  [k \in 1..Len(ms) |-> [p |-> p, m |-> ms[k]]]

(* Lines 204-205: the matches the two inner loops of scan_file go through  *)
(* on a line, pattern after pattern in the order of PATTERNS.              *)
LineMatches(line) ==
  Tagged(1, line) \o Tagged(2, line) \o Tagged(3, line) \o Tagged(4, line)
  \o Tagged(5, line) \o Tagged(6, line) \o Tagged(7, line) \o Tagged(8, line)
  \o Tagged(9, line) \o Tagged(10, line) \o Tagged(11, line) \o Tagged(12, line)
  \o Tagged(13, line) \o Tagged(14, line) \o Tagged(15, line) \o Tagged(16, line)
  \o Tagged(17, line) \o Tagged(18, line)

----------------------------------------------------------------------------
(* Ordered dicts keyed by variable name: sequences of records with a name  *)
(* field, in insertion order.                                              *)

HasKey(d, k) == \E i \in 1..Len(d) : d[i].name = k

KeyIndex(d, k) == CHOOSE i \in 1..Len(d) : d[i].name = k

Keys(d) == { d[i].name : i \in 1..Len(d) }

----------------------------------------------------------------------------
(* scan_file                                                               *)

(* A variant of SkipName with the length test off by one.                  *)
SkipName_OffByOne(var_name) ==
  \/ Len(var_name) <= 3
  \/ var_name \in SKIP_VARS

(* A variant of SkipName without the length test of lines 209-210.         *)
SkipName_SkipSetOnly(var_name) ==
  var_name \in SKIP_VARS

(* Lines 209-212: the matches that are dropped.                            *)
SkipName(var_name) ==
  \/ Len(var_name) < 3
  \/ var_name \in SKIP_VARS

(* A variant of ExtractDefault without the test of line 219 for command    *)
(* substitutions: every non-empty captured default is kept.                *)
ExtractDefault_KeepsCommands(p, m) ==
  LET default_group == PATTERNS[p].default_group
  IN  IF default_group # None /\ PATTERNS[p].groups >= default_group[1]
      THEN LET raw_default == m.raw
           IN  IF raw_default # None /\ raw_default[1] # << >>
               THEN raw_default
               ELSE None
      ELSE None

(* Lines 215-220: the default value of a match of pattern p.               *)
ExtractDefault(p, m) ==
  LET default_group == PATTERNS[p].default_group
  IN  IF default_group # None /\ PATTERNS[p].groups >= default_group[1]
      THEN LET raw_default == m.raw
           IN  IF /\ raw_default # None
                  /\ raw_default[1] # << >>
                  /\ ~ StartsWith(raw_default[1], << "$", "(" >>)
                  /\ ~ StartsWith(raw_default[1], << "BQ" >>)
               THEN raw_default
               ELSE None
      ELSE None

(* A variant of KeepDefault without the test that no default is kept yet:  *)
(* the last default found wins.                                            *)
KeepDefault_LastWins(entry, default_value) ==
  IF default_value # None /\ default_value[1] # << >>
  THEN [entry EXCEPT !.default = default_value]
  ELSE entry

(* Lines 230-232: keep the first non-None default value found.             *)
KeepDefault(entry, default_value) ==
  IF default_value # None /\ default_value[1] # << >> /\ entry.default = None
  THEN [entry EXCEPT !.default = default_value]
  ELSE entry

(* Lines 206-232: the body of the innermost loop, for match m of pattern p *)
(* on line line_num.                                                       *)
ScanMatch(results, line_num, line, p, m) ==
  LET var_name == m.name
  IN  IF SkipName(var_name) THEN results
      ELSE
        LET default_value == ExtractDefault(p, m)
            r1 == IF HasKey(results, var_name) THEN results
                  ELSE Append(results, [name |-> var_name,
                                        occurrences |-> << >>,
                                        default |-> None])
            i  == KeyIndex(r1, var_name)
            r2 == [r1 EXCEPT ![i].occurrences = Append(@, << line_num, line >>)]
        IN  [r2 EXCEPT ![i] = KeepDefault(@, default_value)]

(* Lines 204-232: the two inner loops on one line, over the matches tms    *)
(* still to go through.                                                    *)
RECURSIVE ScanMatches(_, _, _, _)
ScanMatches(results, line_num, line, tms) ==
  IF tms = << >> THEN results
  ELSE ScanMatches(ScanMatch(results, line_num, line, Head(tms).p, Head(tms).m),
                   line_num, line, Tail(tms))

(* Line 203: for line_num, line in enumerate(lines, 1), from line_num on.  *)
RECURSIVE ScanLines(_, _, _)
ScanLines(results, lines, line_num) ==
  IF line_num > Len(lines) THEN results
  ELSE ScanLines(ScanMatches(results, line_num, lines[line_num],
                             LineMatches(lines[line_num])),
                 lines, line_num + 1)

(* A variant of scan_file without the try of lines 195-198: the lines are  *)
(* scanned whether read_text succeeded or not.                             *)
scan_file_NoTry(file) ==
  ScanLines(<< >>, file.lines, 1)

(* scan_file(filepath): a file that cannot be read gives the empty dict.   *)
scan_file(file) ==
  IF ~ file.readable THEN << >>
  ELSE ScanLines(<< >>, file.lines, 1)

----------------------------------------------------------------------------
(* scan_directory                                                          *)

(* The scan root, as path components.                                      *)
root == << "srv", "proj" >>

(* filepath.relative_to(root)                                              *)
relative_to(filepath, base) ==
  SubSeq(filepath, Len(base) + 1, Len(filepath))

(* Lines 260-270: the record of a name seen for the first time.            *)
NewRecord(var_name) ==
  [name       |-> var_name,
   category   |-> categorize_var(var_name),
   files      |-> << >>,
   occurrences |-> 0,
   context    |-> None,
   default    |-> None,
   required   |-> TRUE,
   sensitive  |-> is_sensitive(var_name)]

(* A variant of UpdateDefault that forgets line 279: the default is stored *)
(* and the record stays required.                                          *)
UpdateDefault_RequiredKept(rec, var_data) ==
  IF var_data.default # None /\ var_data.default[1] # << >> /\ rec.default = None
  THEN [rec EXCEPT !.default = var_data.default]
  ELSE rec

(* A variant of UpdateDefault in which the file merged last decides        *)
(* whether the record is required.                                         *)
UpdateDefault_LastFileDecides(rec, var_data) ==
  LET found == var_data.default # None /\ var_data.default[1] # << >>
  IN  [rec EXCEPT !.default = IF found /\ rec.default = None
                              THEN var_data.default ELSE @,
                  !.required = ~ found]

(* Lines 276-279: first default found wins, and the record is optional.    *)
UpdateDefault(rec, var_data) ==
  IF var_data.default # None /\ var_data.default[1] # << >> /\ rec.default = None
  THEN [rec EXCEPT !.default = var_data.default, !.required = FALSE]
  ELSE rec

(* Lines 281-283: store the first context.                                 *)
UpdateContext(rec, var_data) ==
  IF var_data.occurrences # << >> /\ rec.context = None
  THEN [rec EXCEPT !.context = Some(var_data.occurrences[1][2])]
  ELSE rec

(* A variant of MergeEntry that appends the path once for each occurrence  *)
(* in the file instead of once for the file.                               *)
MergeEntry_PathPerOccurrence(all, filepath, var_data) ==
  LET var_name == var_data.name
      a1 == IF HasKey(all, var_name) THEN all
            ELSE Append(all, NewRecord(var_name))
      i  == KeyIndex(a1, var_name)
      rel_path == relative_to(filepath, root)
      a2 == [a1 EXCEPT ![i].files =
                          @ \o [k \in 1..Len(var_data.occurrences) |-> rel_path],
                       ![i].occurrences = @ + Len(var_data.occurrences)]
      a3 == [a2 EXCEPT ![i] = UpdateDefault(@, var_data)]
  IN  [a3 EXCEPT ![i] = UpdateContext(@, var_data)]

(* A variant of MergeEntry that assigns the occurrences of the file and its *)
(* path where lines 273-274 accumulate them.                               *)
MergeEntry_Assigned(all, filepath, var_data) ==
  LET var_name == var_data.name
      a1 == IF HasKey(all, var_name) THEN all
            ELSE Append(all, NewRecord(var_name))
      i  == KeyIndex(a1, var_name)
      rel_path == relative_to(filepath, root)
      a2 == [a1 EXCEPT ![i].files = << rel_path >>,
                       ![i].occurrences = Len(var_data.occurrences)]
      a3 == [a2 EXCEPT ![i] = UpdateDefault(@, var_data)]
  IN  [a3 EXCEPT ![i] = UpdateContext(@, var_data)]

(* Lines 260-283: the body of the loop over file_vars.items().             *)
MergeEntry(all, filepath, var_data) ==
  LET var_name == var_data.name
      a1 == IF HasKey(all, var_name) THEN all
            ELSE Append(all, NewRecord(var_name))
      i  == KeyIndex(a1, var_name)
      rel_path == relative_to(filepath, root)
      a2 == [a1 EXCEPT ![i].files = Append(@, rel_path),
                       ![i].occurrences = @ + Len(var_data.occurrences)]
      a3 == [a2 EXCEPT ![i] = UpdateDefault(@, var_data)]
  IN  [a3 EXCEPT ![i] = UpdateContext(@, var_data)]

----------------------------------------------------------------------------
(* The inputs of the model                                                 *)

MaxFiles == 2   \* files the walk yields

MaxLines == 2   \* lines of a file that hold a reference

MaxRefs == 2    \* references in the whole tree

DB_HOST == << "D", "B", "_", "H", "O", "S", "T" >>

API_KEY == << "A", "P", "I", "_", "K", "E", "Y" >>

HOME == << "H", "O", "M", "E" >>

AB == << "A", "B" >>

X_9 == << "X", "_", "9" >>

HOME_DIR == << "H", "O", "M", "E", "_", "D", "I", "R" >>

(* Default texts: two literals, a command substitution, a backquoted       *)
(* command, and the empty text.                                            *)
D_lo == << "l", "o" >>

D_db == << "d", "b" >>

D_cmd == << "$", "(", "c", ")" >>

D_bq == << "BQ", "c", "BQ" >>

D_empty == << >>

(* The references the files of a scanned tree are made of.                 *)
CoreRefs ==
  { Ref("sh_dash", DB_HOST, Some(D_lo)),      \* ${DB_HOST:-lo}
    Ref("environ_get", DB_HOST, Some(D_db)),  \* os.environ.get("DB_HOST", "db")
    Ref("sh_dash", DB_HOST, Some(D_cmd)),     \* ${DB_HOST:-$(c)}
    Ref("getenv", API_KEY, Some(D_empty)),    \* os.getenv("API_KEY", "")
    Ref("sh_assign", API_KEY, Some(D_bq)),    \* ${API_KEY:=`c`}
    Ref("sh_bare", HOME, None) }              \* $HOME

(* The lines of 1..b references.                                           *)
LinesOf(refs, b) == UNION { [1..k -> refs] : k \in 1..b }

RECURSIVE RefCount(_)
RefCount(lines) ==
  IF lines = << >> THEN 0 ELSE Len(Head(lines)) + RefCount(Tail(lines))

(* The file contents of at most n lines and b references.                  *)
RECURSIVE Contents(_, _, _)
Contents(refs, n, b) ==
  IF n = 0 \/ b = 0 THEN { << >> }
  ELSE { << >> } \cup
       UNION { { << l >> \o rest : rest \in Contents(refs, n - 1, b - Len(l)) } :
               l \in LinesOf(refs, b) }

(* What a file the walk yields may be: readable with some content, or      *)
(* unreadable (read_text raises).                                          *)
CoreFiles ==
  { [readable |-> TRUE, lines |-> ls] : ls \in Contents(CoreRefs, MaxLines, MaxRefs) }
  \cup { [readable |-> FALSE, lines |-> << << r >> >>] : r \in CoreRefs }

(* The files of CoreFiles by the number of references they hold.           *)
CoreFilesOf ==
  [k \in 0..MaxRefs |-> { c \in CoreFiles : RefCount(c.lines) = k }]

FileNames == << "a.sh", "b.py", "c.js", "d.rb", "e.go" >>

RECURSIVE TreeRefs(_)
TreeRefs(files) ==
  IF files = << >> THEN 0
  ELSE RefCount(Head(files).lines) + TreeRefs(Tail(files))

(* No project directory at the path.                                       *)
NoDisk == [exists |-> FALSE, writable |-> FALSE, files |-> << >>]

----------------------------------------------------------------------------
(* scan_directory, step by step                                            *)

Init ==
  /\ pc = "walk"
  /\ tree = << >>
  /\ file_vars = << >>
  /\ all_vars = << >>
  /\ cat_name = None
  /\ category = None
  /\ disk = NoDisk
  /\ adds = 0
  /\ request = None
  /\ response = None
  /\ cli_pc = "idle"
  /\ args = None
  /\ existing = { }
  /\ checked = None
  /\ stdout = None
  /\ stderr = << >>
  /\ outfile = None
  /\ exit_code = None
  /\ previous = << >>

(* Lines 243-257: the walk yields the next in-scope file, with content c,  *)
(* and scan_file scans it.                                                 *)
ScanFileOf(c) ==
  LET f == [path |-> root \o << FileNames[Len(tree) + 1] >>,
            readable |-> c.readable,
            lines |-> c.lines]
  IN  /\ tree' = Append(tree, f)
      /\ file_vars' = scan_file(f)
      /\ pc' = IF file_vars' = << >> THEN "walk" ELSE "merge"
      /\ all_vars' = all_vars
      /\ UNCHANGED << catVars, disk, addVars, cliVars >>

ScanFile ==
  /\ pc = "walk"
  /\ Len(tree) < MaxFiles
  /\ \E k \in 0..(MaxRefs - TreeRefs(tree)) :
        \E c \in CoreFilesOf[k] : ScanFileOf(c)

(* Lines 259-283: one iteration of the loop over file_vars.items().        *)
MergeVar ==
  /\ pc = "merge"
  /\ all_vars' = MergeEntry(all_vars, tree[Len(tree)].path, Head(file_vars))
  /\ file_vars' = Tail(file_vars)
  /\ pc' = IF Tail(file_vars) = << >> THEN "walk" ELSE "merge"
  /\ tree' = tree
  /\ UNCHANGED << catVars, disk, addVars, cliVars >>

(* Line 285: the walk is exhausted and scan_directory returns all_vars.    *)
Return ==
  /\ pc = "walk"
  /\ pc' = "done"
  /\ UNCHANGED << tree, file_vars, all_vars >>
  /\ UNCHANGED << catVars, disk, addVars, cliVars >>

Next == ScanFile \/ MergeVar \/ Return

Spec == Init /\ [][Next]_vars

----------------------------------------------------------------------------
(* Properties of the aggregation                                           *)

(* C1: at every point of the aggregation of scan_directory, and in its     *)
(* result, every record has required = (default is None).                  *)
C1_RequiredIffNoDefault ==
  \A i \in 1..Len(all_vars) :
     all_vars[i].required = (all_vars[i].default = None)

(* A record that the first file created without a default, and so         *)
(* required, has got a default from the second file and is optional.       *)
C1_Witness ==
  /\ Len(tree) = 2
  /\ \E i \in 1..Len(all_vars) :
        LET first == scan_file(tree[1])
        IN  /\ HasKey(first, all_vars[i].name)
            /\ first[KeyIndex(first, all_vars[i].name)].default = None
            /\ all_vars[i].default # None
            /\ ~ all_vars[i].required

(* A default text that counts: not empty, not a command substitution.      *)
Literal(d) ==
  /\ d # << >>
  /\ ~ (Len(d) >= 2 /\ d[1] = "$" /\ d[2] = "(")
  /\ ~ (Len(d) >= 1 /\ d[1] = "BQ")

(* The default texts captured for name n on a line, rule by rule in the    *)
(* order of PATTERNS and left to right within a rule.                      *)
LineDefaults(n, line) ==
  LET caught == SelectSeq(LineMatches(line),
                          LAMBDA t : /\ t.m.name = n
                                     /\ PATTERNS[t.p].default_group # None
                                     /\ t.m.raw # None)
  IN  [k \in 1..Len(caught) |-> caught[k].m.raw[1]]

(* ... in the lines of a file from line k on, top to bottom.               *)
RECURSIVE FileDefaults(_, _, _)
FileDefaults(n, lines, k) ==
  IF k > Len(lines) THEN << >>
  ELSE LineDefaults(n, lines[k]) \o FileDefaults(n, lines, k + 1)

(* ... in the files that could be read, in walk order.                     *)
RECURSIVE TreeDefaults(_, _)
TreeDefaults(n, files) ==
  IF files = << >> THEN << >>
  ELSE (IF Head(files).readable THEN FileDefaults(n, Head(files).lines, 1)
        ELSE << >>)
       \o TreeDefaults(n, Tail(files))

(* The first literal default of a sequence of default texts, or None.      *)
FirstLiteral(ds) ==
  LET lits == SelectSeq(ds, Literal)
  IN  IF lits = << >> THEN None ELSE Some(Head(lits))

(* The files already merged into the record of name n: all the files       *)
(* walked, but the current one while its entry for n is still to merge.    *)
MergedFiles(n) ==
  IF pc = "merge" /\ HasKey(file_vars, n)
  THEN SubSeq(tree, 1, Len(tree) - 1)
  ELSE tree

C2_FirstDefault ==
  \A i \in 1..Len(all_vars) :
     all_vars[i].default =
       FirstLiteral(TreeDefaults(all_vars[i].name, MergedFiles(all_vars[i].name)))

C2_NeverOverwritten ==
  \A i \in 1..Len(all_vars) :
     all_vars[i].default # None =>
       /\ i <= Len(all_vars')
       /\ all_vars'[i].name = all_vars[i].name
       /\ all_vars'[i].default = all_vars[i].default

(* C2: first literal default wins.  A record's default is the first        *)
(* non-empty default that is no command substitution, in discovery order   *)
(* (files in walk order, lines top to bottom, rules in the order of        *)
(* PATTERNS within a line); once set, no step of the scan changes it.      *)
C2_FirstLiteralDefaultWins ==
  [] C2_FirstDefault /\ [][C2_NeverOverwritten]_vars

(* The scan has returned a record whose default is the first literal met,  *)
(* after which a different literal default was met for the same name.      *)
C2_Witness ==
  /\ pc = "done"
  /\ \E i \in 1..Len(all_vars) :
        LET lits == SelectSeq(TreeDefaults(all_vars[i].name, tree), Literal)
        IN  /\ Len(lits) >= 2
            /\ \E k \in 2..Len(lits) : lits[k] # lits[1]
            /\ all_vars[i].default = Some(lits[1])

----------------------------------------------------------------------------
(* scan_directory as a function of the files walked                        *)

(* Lines 259-283: the loop over file_vars.items().                         *)
RECURSIVE MergeFile(_, _, _)
MergeFile(all, filepath, fv) ==
  IF fv = << >> THEN all
  ELSE MergeFile(MergeEntry(all, filepath, Head(fv)), filepath, Tail(fv))

(* Lines 243-285: the loop over the in-scope files, from file k on.        *)
RECURSIVE ScanFiles(_, _, _)
ScanFiles(all, files, k) ==
  IF k > Len(files) THEN all
  ELSE ScanFiles(MergeFile(all, files[k].path, scan_file(files[k])), files, k + 1)

(* scan_directory(root), the walk yielding files.                          *)
scan_directory(files) == ScanFiles(<< >>, files, 1)

----------------------------------------------------------------------------
(* One line of source, every idiom                                         *)

ProbeNames == { DB_HOST, X_9, HOME_DIR, HOME, AB }

(* Every form with every name and, where the form has a default text, a    *)
(* literal, a command substitution and the empty text.                     *)
ProbeRefs ==
  { Ref(f, n, d) :
      f \in { "environ_get", "getenv", "process_env", "ruby_idx", "ruby_fetch",
              "env_call", "getEnv_call" },
      n \in ProbeNames,
      d \in { None, Some(D_lo), Some(D_cmd), Some(D_empty) } }
  \cup
  { Ref(f, n, None) :
      f \in { "environ_idx", "process_env_idx", "go_getenv", "rust_var",
              "sh_bare", "sh_brace", "environ_get_expr", "getenv_expr" },
      n \in ProbeNames }
  \cup
  { Ref(f, n, d) :
      f \in { "sh_dash", "sh_assign", "assign" },
      n \in ProbeNames,
      d \in { Some(D_lo), Some(D_cmd), Some(D_empty) } }

(* What else the line may hold, before or after the reference.             *)
ContextRefs ==
  { Ref("sh_bare", HOME, None),               \* $HOME
    Ref("environ_get", DB_HOST, Some(D_db)) } \* os.environ.get("DB_HOST", "db")

ProbeFiles ==
  { [readable |-> TRUE, lines |-> << l >>] :
      l \in { << r >> : r \in ProbeRefs }
            \cup { << c, r >> : c \in ContextRefs, r \in ProbeRefs }
            \cup { << r, c >> : c \in ContextRefs, r \in ProbeRefs } }

(* The walk yields one file, of one line.                                  *)
ScanProbeFile ==
  /\ pc = "walk"
  /\ tree = << >>
  /\ \E c \in ProbeFiles : ScanFileOf(c)

NextIdioms == ScanProbeFile \/ MergeVar \/ Return

SpecIdioms == Init /\ [][NextIdioms]_vars

(* A name the scan is to report.                                           *)
ValidName(n) ==
  /\ WellFormed(n)
  /\ Len(n) >= 3
  /\ n \notin SKIP_VARS

(* The supported idioms: a call with the quoted name alone or with a       *)
(* quoted default, an index, a property, a shell expansion, an assignment  *)
(* at the start of the line.                                               *)
SupportedForms ==
  { "environ_get", "getenv", "environ_idx", "process_env", "process_env_idx",
    "go_getenv", "rust_var", "ruby_idx", "ruby_fetch", "sh_dash", "sh_assign",
    "sh_bare", "sh_brace", "env_call", "getEnv_call", "assign" }

Supported(line, i) ==
  /\ line[i].form \in SupportedForms
  /\ line[i].form = "assign" => i = 1

(* C3: a line that refers to a valid name (of the form [A-Z][A-Z0-9_]*, of *)
(* length >= 3, not in SKIP_VARS) through a supported idiom makes          *)
(* scan_file, and scan_directory, return a record keyed by that name.      *)
C3_IdiomYieldsRecord ==
  \A f \in 1..Len(tree) : \A l \in 1..Len(tree[f].lines) :
     \A i \in 1..Len(tree[f].lines[l]) :
        LET line == tree[f].lines[l]
        IN  (tree[f].readable /\ Supported(line, i) /\ ValidName(line[i].name))
            => /\ HasKey(scan_file(tree[f]), line[i].name)
               /\ (pc = "merge" /\ Len(file_vars) = Len(scan_file(tree[f])))
                     => HasKey(file_vars, line[i].name)
               /\ pc = "done" => HasKey(all_vars, line[i].name)

(* The scan has returned the record of a three-character name assigned at  *)
(* the start of a line.                                                    *)
C3_Witness ==
  /\ pc = "done"
  /\ Len(tree) = 1
  /\ \E i \in 1..Len(tree[1].lines[1]) :
        /\ tree[1].lines[1][i].form = "assign"
        /\ tree[1].lines[1][i].name = X_9
        /\ HasKey(all_vars, X_9)

(* The references of dropped names made inert text.                        *)
Inert(files) ==
  [f \in 1..Len(files) |->
     [files[f] EXCEPT !.lines =
        [l \in 1..Len(files[f].lines) |->
           [i \in 1..Len(files[f].lines[l]) |->
              LET r == files[f].lines[l][i]
              IN  IF Len(r.name) < 3 \/ r.name \in SKIP_VARS
                  THEN Ref("text", r.name, None)
                  ELSE r]]]]

(* A record without its context line.                                      *)
Counted(rec) ==
  [name |-> rec.name, files |-> rec.files, occurrences |-> rec.occurrences,
   default |-> rec.default, required |-> rec.required]

(* C4: no record, merged or still to merge, has a name shorter than 3      *)
(* characters or a name of SKIP_VARS, and the result of the scan is the    *)
(* result for the same tree without the references of such names: they add *)
(* no record, no occurrence, no file and no default.                       *)
C4_SkippedNamesLeaveNoTrace ==
  /\ \A i \in 1..Len(all_vars) :
        Len(all_vars[i].name) >= 3 /\ all_vars[i].name \notin SKIP_VARS
  /\ \A i \in 1..Len(file_vars) :
        Len(file_vars[i].name) >= 3 /\ file_vars[i].name \notin SKIP_VARS
  /\ pc = "done" =>
        LET clean == scan_directory(Inert(tree))
        IN  /\ Len(all_vars) = Len(clean)
            /\ \A i \in 1..Len(all_vars) : Counted(all_vars[i]) = Counted(clean[i])

(* The scan has returned one record for a line that also refers to a       *)
(* dropped name, through a form with a literal default.                    *)
C4_Witness ==
  /\ pc = "done"
  /\ Len(tree) = 1
  /\ Len(all_vars) = 1
  /\ \E i \in 1..Len(tree[1].lines[1]) :
        LET r == tree[1].lines[1][i]
        IN  /\ Len(r.name) < 3
            /\ r.dflt = Some(D_lo)
            /\ Supported(tree[1].lines[1], i)

(* C10: a line whose only reference is one ${VAR:-default} expansion adds  *)
(* exactly 1 to the occurrence count of VAR.                               *)
C10_CountedOnce ==
  (/\ pc = "done"
   /\ Len(tree) = 1
   /\ tree[1].readable
   /\ Len(tree[1].lines) = 1
   /\ Len(tree[1].lines[1]) = 1
   /\ tree[1].lines[1][1].form = "sh_dash"
   /\ ValidName(tree[1].lines[1][1].name))
  => /\ Len(all_vars) = 1
     /\ all_vars[1].name = tree[1].lines[1][1].name
     /\ all_vars[1].occurrences = 1

----------------------------------------------------------------------------
(* categorize_var on its own                                               *)

MaxFragments == 2

Fragments ==
  { << "D", "A", "T", "A", "B", "A", "S", "E", "_" >>,
    << "U", "R", "L" >>,
    << "A", "P", "I", "_" >>,
    << "K", "E", "Y" >>,
    << "A", "U", "T", "H" >>,
    << "A", "W", "S", "_" >>,
    << "M", "A", "I", "L" >>,
    << "L", "O", "G", "_" >>,
    << "E", "N", "A", "B", "L", "E", "_" >>,
    << "A", "P", "P" >>,
    << "d", "b", "_" >>,
    << "S", "Q", "L" >> }

(* The names made of n fragments.                                          *)
RECURSIVE FragmentNames(_)
FragmentNames(n) ==
  IF n = 0 THEN { << >> }
  ELSE LET shorter == FragmentNames(n - 1)
       IN  shorter \cup { a \o b : a \in shorter, b \in Fragments }

(* A call categorize_var(var_name).                                        *)
Categorize ==
  /\ cat_name = None
  /\ \E var_name \in FragmentNames(MaxFragments) :
        /\ cat_name' = Some(var_name)
        /\ category' = Some(categorize_var(var_name))
  /\ UNCHANGED << scanVars, disk, addVars, cliVars >>

NextCat == Categorize

SpecCat == Init /\ [][NextCat]_vars

DATABASE_URL == << "D", "A", "T", "A", "B", "A", "S", "E", "_", "U", "R", "L" >>

(* The categories, by position in the table, with a keyword that occurs in *)
(* the uppercased name.                                                    *)
Hits(var_name) ==
  { c \in 1..Len(CATEGORIES) :
      \E p \in 1..Len(CATEGORIES[c].prefixes) :
         Contains(CATEGORIES[c].prefixes[p], Upper(var_name)) }

(* C8: the table order is database, auth, api, cloud, email, logging,      *)
(* feature; categorize_var returns the earliest category of that order one *)
(* of whose keywords is a substring of the uppercased name (DATABASE_URL   *)
(* is database, API_KEY is auth), and general iff no keyword of any        *)
(* category occurs in the name.                                            *)
C8_FirstMatchInTableOrder ==
  /\ [c \in 1..Len(CATEGORIES) |-> CATEGORIES[c].category]
        = << "database", "auth", "api", "cloud", "email", "logging", "feature" >>
  /\ cat_name # None =>
        LET hits == Hits(cat_name[1])
        IN  /\ category # None
            /\ (category[1] = "general") <=> (hits = { })
            /\ hits # { } =>
                  \E c \in hits : /\ \A o \in hits : c <= o
                                  /\ category[1] = CATEGORIES[c].category
            /\ cat_name[1] = DATABASE_URL => category[1] = "database"
            /\ cat_name[1] = API_KEY => category[1] = "auth"

(* categorize_var has returned for a name with keywords of two            *)
(* categories: API_KEY holds API_KEY (auth) and API_ (api).                *)
C8_Witness ==
  /\ cat_name = Some(API_KEY)
  /\ Cardinality(Hits(API_KEY)) >= 2
  /\ category = Some("auth")

----------------------------------------------------------------------------
(* The text of a line                                                      *)

Quoted(n) == << "\"" >> \o n \o << "\"" >>

(* The optional second argument of a call.                                 *)
Arg2(dflt) == IF dflt = None THEN << >> ELSE << ",", " " >> \o Quoted(dflt[1])

(* The optional alternative after a property or an index.                  *)
OrElse(dflt) == IF dflt = None THEN << >> ELSE << " ", "|", "|", " " >> \o Quoted(dflt[1])

Value(dflt) == IF dflt = None THEN << >> ELSE dflt[1]

(* The text a reference stands for.                                        *)
Text(it) ==
  CASE it.form = "environ_get" ->
         << "o", "s", ".", "e", "n", "v", "i", "r", "o", "n", ".", "g", "e", "t", "(" >> \o Quoted(it.name) \o Arg2(it.dflt) \o << ")" >>
    [] it.form = "environ_get_expr" ->
         << "o", "s", ".", "e", "n", "v", "i", "r", "o", "n", ".", "g", "e", "t", "(" >> \o Quoted(it.name) \o << ",", " ", "f", "a", "l", "l", "b", "a", "c", "k", ")" >>
    [] it.form = "getenv" ->
         << "o", "s", ".", "g", "e", "t", "e", "n", "v", "(" >> \o Quoted(it.name) \o Arg2(it.dflt) \o << ")" >>
    [] it.form = "getenv_expr" ->
         << "o", "s", ".", "g", "e", "t", "e", "n", "v", "(" >> \o Quoted(it.name) \o << ",", " ", "f", "a", "l", "l", "b", "a", "c", "k", ")" >>
    [] it.form = "environ_idx" -> << "o", "s", ".", "e", "n", "v", "i", "r", "o", "n", "[" >> \o Quoted(it.name) \o << "]" >>
    [] it.form = "process_env" -> << "p", "r", "o", "c", "e", "s", "s", ".", "e", "n", "v", "." >> \o it.name \o OrElse(it.dflt)
    [] it.form = "process_env_idx" -> << "p", "r", "o", "c", "e", "s", "s", ".", "e", "n", "v", "[" >> \o Quoted(it.name) \o << "]" >>
    [] it.form = "go_getenv" -> << "o", "s", ".", "G", "e", "t", "e", "n", "v", "(" >> \o Quoted(it.name) \o << ")" >>
    [] it.form = "rust_var" -> << "e", "n", "v", ":", ":", "v", "a", "r", "(" >> \o Quoted(it.name) \o << ")" >>
    [] it.form = "ruby_idx" -> << "E", "N", "V", "[" >> \o Quoted(it.name) \o << "]" >> \o OrElse(it.dflt)
    [] it.form = "ruby_fetch" ->
         << "E", "N", "V", ".", "f", "e", "t", "c", "h", "(" >> \o Quoted(it.name) \o Arg2(it.dflt) \o << ")" >>
    [] it.form = "sh_dash" -> << "$", "{" >> \o it.name \o << ":", "-" >> \o Value(it.dflt) \o << "}" >>
    [] it.form = "sh_assign" -> << "$", "{" >> \o it.name \o << ":", "=" >> \o Value(it.dflt) \o << "}" >>
    [] it.form = "sh_bare" -> << "$" >> \o it.name
    [] it.form = "sh_brace" -> << "$", "{" >> \o it.name \o << "}" >>
    [] it.form = "env_call" -> << "e", "n", "v", "(" >> \o Quoted(it.name) \o Arg2(it.dflt) \o << ")" >>
    [] it.form = "getEnv_call" ->
         << "g", "e", "t", "E", "n", "v", "(" >> \o Quoted(it.name) \o Arg2(it.dflt) \o << ")" >>
    [] it.form = "assign" -> it.name \o << "=" >> \o Value(it.dflt)
    [] it.form = "assign_sp" -> it.name \o << " ", "=", " " >> \o Value(it.dflt)
    [] it.form = "export" -> << "e", "x", "p", "o", "r", "t", " " >> \o it.name \o << "=" >> \o Value(it.dflt)
    [] it.form = "comment" -> << "#", " " >> \o it.name
    [] OTHER -> it.name

(* The text of a line: its references, a blank between two.                *)
RECURSIVE LineText(_)
LineText(line) ==
  IF line = << >> THEN << >>
  ELSE IF Len(line) = 1 THEN Text(line[1])
  ELSE Text(line[1]) \o << " " >> \o LineText(Tail(line))

(* str.strip()                                                             *)
strip(s) ==
  LET inked == { i \in 1..Len(s) : s[i] # " " }
  IN  IF inked = { } THEN << >>
      ELSE SubSeq(s, CHOOSE i \in inked : \A j \in inked : i <= j,
                     CHOOSE i \in inked : \A j \in inked : i >= j)

(* s.split('=')[0]                                                         *)
BeforeEquals(s) ==
  LET signs == { i \in 1..Len(s) : s[i] = "=" }
  IN  IF signs = { } THEN s
      ELSE SubSeq(s, 1, (CHOOSE i \in signs : \A j \in signs : i <= j) - 1)

----------------------------------------------------------------------------
(* check_existing_env                                                      *)

(* Line 292: the files read, in this order.                                *)
ENV_FILES == << ".env", ".env.local", ".env.example", ".env.development" >>

(* The position in files of the file at a path, 0 when there is none.      *)
FileAt(files, path) ==
  IF \E i \in 1..Len(files) : files[i].path = path
  THEN CHOOSE i \in 1..Len(files) : files[i].path = path
  ELSE 0

(* Lines 296-300: the names one file defines.                              *)
DefinedIn(lines) ==
  { strip(BeforeEquals(strip(LineText(lines[i])))) :
      i \in { j \in 1..Len(lines) :
                LET line == strip(LineText(lines[j]))
                IN  /\ line # << >>
                    /\ ~ StartsWith(line, << "#" >>)
                    /\ \E k \in 1..Len(line) : line[k] = "=" } }

(* check_existing_env(root): a file that does not exist, cannot be read or *)
(* is not UTF-8 text adds nothing (lines 294-302).                         *)
check_existing_env(d) ==
  UNION { LET i == FileAt(d.files, root \o << ENV_FILES[e] >>)
          IN  IF i > 0 /\ d.files[i].readable /\ d.files[i].utf8
              THEN DefinedIn(d.files[i].lines)
              ELSE { } : e \in 1..Len(ENV_FILES) }

----------------------------------------------------------------------------
(* guess_description, guess_example                                        *)

IsLetter(c) == IndexOf(LOWER, c) > 0 \/ IndexOf(UPPER, c) > 0

LowerChar(c) ==
  IF IndexOf(UPPER, c) > 0 THEN LOWER[IndexOf(UPPER, c)] ELSE c

(* var_name.replace('_', ' ')                                              *)
Spaced(s) == [i \in 1..Len(s) |-> IF s[i] = "_" THEN " " ELSE s[i]]

(* str.title()                                                             *)
Title(s) ==
  [i \in 1..Len(s) |->
     IF i = 1 \/ ~ IsLetter(s[i - 1]) THEN UpperChar(s[i]) ELSE LowerChar(s[i])]

(* Lines 126-142: the table of guess_description.                          *)
descriptions ==
  << [name |-> << "D", "A", "T", "A", "B", "A", "S", "E", "_", "U", "R", "L" >>, text |-> << "D", "a", "t", "a", "b", "a", "s", "e", " ", "c", "o", "n", "n", "e", "c", "t", "i", "o", "n", " ", "s", "t", "r", "i", "n", "g" >>],
     [name |-> << "D", "B", "_", "H", "O", "S", "T" >>, text |-> << "D", "a", "t", "a", "b", "a", "s", "e", " ", "h", "o", "s", "t", " ", "a", "d", "d", "r", "e", "s", "s" >>],
     [name |-> << "D", "B", "_", "P", "O", "R", "T" >>, text |-> << "D", "a", "t", "a", "b", "a", "s", "e", " ", "p", "o", "r", "t", " ", "n", "u", "m", "b", "e", "r" >>],
     [name |-> << "D", "B", "_", "U", "S", "E", "R" >>, text |-> << "D", "a", "t", "a", "b", "a", "s", "e", " ", "u", "s", "e", "r", "n", "a", "m", "e" >>],
     [name |-> << "D", "B", "_", "P", "A", "S", "S", "W", "O", "R", "D" >>, text |-> << "D", "a", "t", "a", "b", "a", "s", "e", " ", "p", "a", "s", "s", "w", "o", "r", "d" >>],
     [name |-> << "D", "B", "_", "N", "A", "M", "E" >>, text |-> << "D", "a", "t", "a", "b", "a", "s", "e", " ", "n", "a", "m", "e" >>],
     [name |-> << "R", "E", "D", "I", "S", "_", "U", "R", "L" >>, text |-> << "R", "e", "d", "i", "s", " ", "c", "o", "n", "n", "e", "c", "t", "i", "o", "n", " ", "U", "R", "L" >>],
     [name |-> << "A", "P", "I", "_", "K", "E", "Y" >>, text |-> << "A", "P", "I", " ", "k", "e", "y", " ", "f", "o", "r", " ", "a", "u", "t", "h", "e", "n", "t", "i", "c", "a", "t", "i", "o", "n" >>],
     [name |-> << "S", "E", "C", "R", "E", "T", "_", "K", "E", "Y" >>, text |-> << "A", "p", "p", "l", "i", "c", "a", "t", "i", "o", "n", " ", "s", "e", "c", "r", "e", "t", " ", "k", "e", "y" >>],
     [name |-> << "J", "W", "T", "_", "S", "E", "C", "R", "E", "T" >>, text |-> << "J", "W", "T", " ", "s", "i", "g", "n", "i", "n", "g", " ", "s", "e", "c", "r", "e", "t" >>],
     [name |-> << "P", "O", "R", "T" >>, text |-> << "S", "e", "r", "v", "e", "r", " ", "p", "o", "r", "t", " ", "n", "u", "m", "b", "e", "r" >>],
     [name |-> << "H", "O", "S", "T" >>, text |-> << "S", "e", "r", "v", "e", "r", " ", "h", "o", "s", "t", " ", "a", "d", "d", "r", "e", "s", "s" >>],
     [name |-> << "N", "O", "D", "E", "_", "E", "N", "V" >>, text |-> << "N", "o", "d", "e", ".", "j", "s", " ", "e", "n", "v", "i", "r", "o", "n", "m", "e", "n", "t", " ", "(", "d", "e", "v", "e", "l", "o", "p", "m", "e", "n", "t", "/", "p", "r", "o", "d", "u", "c", "t", "i", "o", "n", ")" >>],
     [name |-> << "D", "E", "B", "U", "G" >>, text |-> << "E", "n", "a", "b", "l", "e", " ", "d", "e", "b", "u", "g", " ", "m", "o", "d", "e" >>],
     [name |-> << "L", "O", "G", "_", "L", "E", "V", "E", "L" >>, text |-> << "L", "o", "g", "g", "i", "n", "g", " ", "l", "e", "v", "e", "l", " ", "(", "d", "e", "b", "u", "g", "/", "i", "n", "f", "o", "/", "w", "a", "r", "n", "/", "e", "r", "r", "o", "r", ")" >>] >>

(* guess_description(var_name, context)                                    *)
guess_description(var_name, context) ==
  IF HasKey(descriptions, var_name)
  THEN descriptions[KeyIndex(descriptions, var_name)].text
  ELSE Title(Spaced(var_name)) \o << " ", "c", "o", "n", "f", "i", "g", "u", "r", "a", "t", "i", "o", "n" >>

(* Lines 158-166: the table of guess_example.                              *)
examples ==
  << [name |-> << "D", "A", "T", "A", "B", "A", "S", "E", "_", "U", "R", "L" >>,
      text |-> << "p", "o", "s", "t", "g", "r", "e", "s", "q", "l", ":", "/", "/", "u", "s", "e", "r", ":", "p", "a", "s", "s", "@", "l", "o", "c", "a", "l", "h", "o", "s", "t", ":", "5", "4", "3", "2", "/", "d", "b", "n", "a", "m", "e" >>],
     [name |-> << "R", "E", "D", "I", "S", "_", "U", "R", "L" >>, text |-> << "r", "e", "d", "i", "s", ":", "/", "/", "l", "o", "c", "a", "l", "h", "o", "s", "t", ":", "6", "3", "7", "9" >>],
     [name |-> << "P", "O", "R", "T" >>, text |-> << "3", "0", "0", "0" >>],
     [name |-> << "H", "O", "S", "T" >>, text |-> << "l", "o", "c", "a", "l", "h", "o", "s", "t" >>],
     [name |-> << "N", "O", "D", "E", "_", "E", "N", "V" >>, text |-> << "d", "e", "v", "e", "l", "o", "p", "m", "e", "n", "t" >>],
     [name |-> << "D", "E", "B", "U", "G" >>, text |-> << "f", "a", "l", "s", "e" >>],
     [name |-> << "L", "O", "G", "_", "L", "E", "V", "E", "L" >>, text |-> << "i", "n", "f", "o" >>] >>

(* guess_example(var_name, default_value): default_value is None or a      *)
(* text, and the empty text counts as none (line 155).                     *)
guess_example(var_name, default_value) ==
  LET var_upper == Upper(var_name)
  IN  IF default_value # None /\ default_value[1] # << >> THEN default_value[1]
      ELSE IF HasKey(examples, var_name)
        THEN examples[KeyIndex(examples, var_name)].text
      ELSE IF Contains(<< "U", "R", "L" >>, var_upper) THEN << "h", "t", "t", "p", "s", ":", "/", "/", "e", "x", "a", "m", "p", "l", "e", ".", "c", "o", "m" >>
      ELSE IF Contains(<< "P", "O", "R", "T" >>, var_upper) THEN << "8", "0", "8", "0" >>
      ELSE IF Contains(<< "H", "O", "S", "T" >>, var_upper) THEN << "l", "o", "c", "a", "l", "h", "o", "s", "t" >>
      ELSE IF \/ Contains(<< "K", "E", "Y" >>, var_upper)
              \/ Contains(<< "S", "E", "C", "R", "E", "T" >>, var_upper)
              \/ Contains(<< "T", "O", "K", "E", "N" >>, var_upper) THEN << "y", "o", "u", "r", "-", "s", "e", "c", "r", "e", "t", "-", "h", "e", "r", "e" >>
      ELSE IF Contains(<< "P", "A", "S", "S", "W", "O", "R", "D" >>, var_upper) THEN << "y", "o", "u", "r", "-", "p", "a", "s", "s", "w", "o", "r", "d" >>
      ELSE IF Contains(<< "U", "S", "E", "R" >>, var_upper) \/ Contains(<< "N", "A", "M", "E" >>, var_upper)
        THEN << "y", "o", "u", "r", "-", "u", "s", "e", "r", "n", "a", "m", "e" >>
      ELSE IF Contains(<< "E", "M", "A", "I", "L" >>, var_upper) THEN << "u", "s", "e", "r", "@", "e", "x", "a", "m", "p", "l", "e", ".", "c", "o", "m" >>
      ELSE IF Contains(<< "D", "E", "B", "U", "G" >>, var_upper) \/ Contains(<< "E", "N", "A", "B", "L", "E" >>, var_upper)
        THEN << "f", "a", "l", "s", "e" >>
      ELSE << >>

----------------------------------------------------------------------------
(* env_audit_add of src/mcp_server.py                                      *)

ENV_EXAMPLE == root \o << ".env.example" >>

(* Line 169: the entry, after the line break that starts it.               *)
Entry(var, value, description) ==
  << << Ref("comment", description, None) >>,
     << Ref("assign", var, Some(value)) >>,
     << >> >>

(* Line 177: the header of a new file, up to the entry's line break.       *)
Header ==
  << << Ref("comment", << "E", "n", "v", "i", "r", "o", "n", "m", "e", "n", "t", " ", "V", "a", "r", "i", "a", "b", "l", "e", "s" >>, None) >>,
     << Ref("comment", << "G", "e", "n", "e", "r", "a", "t", "e", "d", " ", "b", "y", " ", "e", "n", "v", "-", "a", "u", "d", "i", "t" >>, None) >>,
     << >> >>

(* file.write(entry) in mode 'a': the entry starts with a line break, so   *)
(* the last line of the file stays as it is.                               *)
AppendEntry(file, entry) == [file EXCEPT !.lines = file.lines \o entry]

(* Lines 173-179: the write.                                               *)
WriteEntry(d, entry) ==
  LET i == FileAt(d.files, ENV_EXAMPLE)
  IN  IF i > 0
      THEN [d EXCEPT !.files[i] = AppendEntry(d.files[i], entry)]
      ELSE [d EXCEPT !.files =
              Append(d.files, [path |-> ENV_EXAMPLE, readable |-> TRUE,
                               utf8 |-> TRUE, lines |-> Header \o entry])]

(* env_audit_add(path, var, value, description): the result and the        *)
(* directory after the call.  value and description are None when the      *)
(* caller leaves them out.                                                 *)
env_audit_add(d, var, value, description) ==
  IF var = << >>
  THEN [result |-> [error |-> "Variable name is required"], disk |-> d]
  ELSE IF var \in check_existing_env(d)
  THEN [result |-> [error |-> "Variable already exists in .env.example",
                    action |-> "none"],
        disk |-> d]
  ELSE LET described == IF description = None \/ description = Some(<< >>)
                        THEN guess_description(var, << >>)
                        ELSE description[1]
           valued == IF value = None \/ value = Some(<< >>)
                     THEN guess_example(var, None)
                     ELSE value[1]
       IN  IF ~ d.exists \/ ~ d.writable
           THEN [result |-> [error |-> "OSError"], disk |-> d]
           ELSE [result |-> [success |-> TRUE, action |-> "added",
                             variable |-> var, value |-> valued,
                             description |-> described, file |-> ENV_EXAMPLE],
                 disk |-> WriteEntry(d, Entry(var, valued, described))]

----------------------------------------------------------------------------
(* Calls of env_audit_add on a project directory                           *)

MaxEnvLines == 1

MaxAdds == 2

(* The lines a dotenv file may hold.                                       *)
EnvLines ==
  { << Ref("assign", DB_HOST, Some(D_lo)) >>,          \* DB_HOST=lo
    << Ref("assign_sp", DB_HOST, Some(D_lo)) >>,       \* DB_HOST = lo
    << Ref("export", DB_HOST, Some(D_lo)) >>,          \* export DB_HOST=lo
    << Ref("comment", << "D", "B", "_", "H", "O", "S", "T", "=", "l", "o" >>, None) >>,        \* # DB_HOST=lo
    << Ref("text", DB_HOST, None) >> }                 \* DB_HOST

(* The contents of at most n lines, with and without the final line break. *)
RECURSIVE EnvTexts(_)
EnvTexts(n) ==
  IF n = 0 THEN { << >> }
  ELSE LET shorter == EnvTexts(n - 1)
       IN  shorter \cup { Append(t, l) : t \in shorter, l \in EnvLines }

EnvContents ==
  { t \o << << >> >> : t \in EnvTexts(MaxEnvLines) }
  \cup (EnvTexts(MaxEnvLines) \ { << >> })

(* .env.example: absent, or present with some content; it may be           *)
(* unreadable, or readable and not UTF-8 text.                             *)
ExampleFiles ==
  { << >> } \cup
  { << [path |-> ENV_EXAMPLE, readable |-> m[1], utf8 |-> m[2], lines |-> c] >> :
      m \in { << TRUE, TRUE >>, << TRUE, FALSE >>, << FALSE, TRUE >> },
      c \in EnvContents }

(* .env: absent, or  API_KEY=  and a line break.                           *)
DotEnvFiles ==
  { << >>,
    << [path |-> root \o << ".env" >>, readable |-> TRUE, utf8 |-> TRUE,
        lines |-> << << Ref("assign", API_KEY, Some(D_empty)) >>, << >> >>] >> }

AddDisks ==
  { NoDisk } \cup
  { [exists |-> TRUE, writable |-> w, files |-> e \o x] :
      w \in BOOLEAN, e \in DotEnvFiles, x \in ExampleFiles }

AddNames == { << >>, DB_HOST, API_KEY }

AddValues == { None, Some(D_db) }

AddDescriptions == { None, Some(<< "h", "o", "s", "t" >>) }

InitAdd ==
  /\ pc = "walk"
  /\ tree = << >>
  /\ file_vars = << >>
  /\ all_vars = << >>
  /\ cat_name = None
  /\ category = None
  /\ disk \in AddDisks
  /\ adds = 0
  /\ request = None
  /\ response = None
  /\ cli_pc = "idle"
  /\ args = None
  /\ existing = { }
  /\ checked = None
  /\ stdout = None
  /\ stderr = << >>
  /\ outfile = None
  /\ exit_code = None
  /\ previous = << >>

(* A call of the tool.                                                     *)
AddCall ==
  /\ adds < MaxAdds
  /\ \E var \in AddNames, value \in AddValues, description \in AddDescriptions :
        LET r == env_audit_add(disk, var, value, description)
        IN  /\ request' = Some([var |-> var, value |-> value,
                                description |-> description])
            /\ response' = Some(r.result)
            /\ disk' = r.disk
  /\ adds' = adds + 1
  /\ UNCHANGED << scanVars, catVars, cliVars >>

NextAdd == AddCall

SpecAdd == InitAdd /\ [][NextAdd]_vars

(* .env.example holds a line  NAME=value  for the name, blanks aside.      *)
PresentInExample(d, var) ==
  LET i == FileAt(d.files, ENV_EXAMPLE)
  IN  i > 0 /\ var \in DefinedIn(d.files[i].lines)

(* C6: a call of env_audit_add with a name already present in              *)
(* .env.example returns an error result and performs no write: the         *)
(* directory, and so the content of .env.example, is the same before and   *)
(* after the call.                                                         *)
C6_PresentNameRefused ==
  [][ (adds' = adds + 1 /\ PresentInExample(disk, request'[1].var))
      => ("error" \in DOMAIN response'[1] /\ disk' = disk) ]_vars

----------------------------------------------------------------------------
(* The renderers                                                           *)

(* A variant of SortByName without the sort: the records in the order of   *)
(* the dict.                                                               *)
SortByName_DictOrder(recs) == recs

(* sorted(..., key=lambda x: x['name']) of the values of a dict: the names *)
(* differ, so the place of a record is the number of smaller names.        *)
SortByName(recs) ==
  [i \in 1..Len(recs) |->
     recs[CHOOSE j \in 1..Len(recs) :
            Cardinality({ k \in 1..Len(recs) :
                            StrLess(recs[k].name, recs[j].name) }) = i - 1]]

(* sep.join(parts)                                                         *)
RECURSIVE Join(_, _)
Join(sep, parts) ==
  IF parts = << >> THEN << >>
  ELSE IF Len(parts) = 1 THEN parts[1]
  ELSE parts[1] \o sep \o Join(sep, Tail(parts))

(* str(path): a component of a path is one symbol of the text, but the    *)
(* file name that holds a reference, which is spelled out.                 *)
PathText(path) ==
  Join(<< "/" >>,
       [i \in 1..Len(path) |->
          IF path[i] = "$BUILD_DIR.py" THEN << "$", "B", "U", "I", "L", "D", "_", "D", "I", "R", ".", "p", "y" >>
          ELSE << path[i] >>])

(* files[:n]                                                               *)
FirstN(seq, n) == SubSeq(seq, 1, IF Len(seq) < n THEN Len(seq) ELSE n)

(* Line 321                                                                *)
category_order ==
  << "database", "auth", "api", "cloud", "email", "logging", "feature", "general" >>

(* category.upper(), the name of a category being one symbol of the text   *)
CategoryUpper(c) ==
  CASE c = "database" -> << "D", "A", "T", "A", "B", "A", "S", "E" >>
    [] c = "auth" -> << "A", "U", "T", "H" >>
    [] c = "api" -> << "A", "P", "I" >>
    [] c = "cloud" -> << "C", "L", "O", "U", "D" >>
    [] c = "email" -> << "E", "M", "A", "I", "L" >>
    [] c = "logging" -> << "L", "O", "G", "G", "I", "N", "G" >>
    [] c = "feature" -> << "F", "E", "A", "T", "U", "R", "E" >>
    [] OTHER -> << "G", "E", "N", "E", "R", "A", "L" >>

(* '=' * 50                                                                *)
Rule == [i \in 1..50 |-> "="]

DefaultText(var_info) ==
  IF var_info.default = None THEN << "N", "o", "n", "e" >> ELSE var_info.default[1]

(* Lines 340-348: the status indicators of a variable.                     *)
StatusParts(var_info, defined) ==
  (IF var_info.name \in defined THEN << << "a", "l", "r", "e", "a", "d", "y", " ", "d", "e", "f", "i", "n", "e", "d" >> >> ELSE << >>)
  \o (IF var_info.sensitive THEN << << "s", "e", "n", "s", "i", "t", "i", "v", "e" >> >> ELSE << >>)
  \o (IF ~ var_info.required
      THEN << << "o", "p", "t", "i", "o", "n", "a", "l", ",", " ", "d", "e", "f", "a", "u", "l", "t", ":", " " >> \o DefaultText(var_info) >>
      ELSE << << "r", "e", "q", "u", "i", "r", "e", "d" >> >>)

(* Lines 334-357: the lines of one variable.                               *)
VarLines(var_info, defined) ==
  LET desc == guess_description(var_info.name, var_info.context)
      example == guess_example(var_info.name, var_info.default)
      parts == StatusParts(var_info, defined)
      status == IF parts = << >> THEN << >>
                ELSE << " ", "(" >> \o Join(<< ",", " " >>, parts) \o << ")" >>
      shown == FirstN(var_info.files, 3)
  IN  << << Ref("comment", desc \o status, None) >>,
         << Ref("comment",
                << "F", "o", "u", "n", "d", " ", "i", "n", ":", " " >>
                  \o Join(<< ",", " " >>, [i \in 1..Len(shown) |-> PathText(shown[i])]),
                None) >> >>
      \o (IF Len(var_info.files) > 3
          THEN << << Ref("comment",
                         << " ", " ", ".", ".", ".", "a", "n", "d", " " >> \o << ToString(Len(var_info.files) - 3) >>
                           \o << " ", "m", "o", "r", "e", " ", "f", "i", "l", "e", "s" >>,
                         None) >> >>
          ELSE << >>)
      \o << << Ref("assign", var_info.name, Some(example)) >>, << >> >>

RECURSIVE VarsLines(_, _)
VarsLines(vars_list, defined) ==
  IF vars_list = << >> THEN << >>
  ELSE VarLines(Head(vars_list), defined) \o VarsLines(Tail(vars_list), defined)

(* Lines 323-357: the sections from category c of category_order on.       *)
RECURSIVE Sections(_, _, _)
Sections(vars_dict, defined, c) ==
  IF c > Len(category_order) THEN << >>
  ELSE LET members == SelectSeq(vars_dict,
                                LAMBDA v : v.category = category_order[c])
       IN  (IF members = << >> THEN << >>
            ELSE << << Ref("comment", Rule, None) >>,
                    << Ref("comment", CategoryUpper(category_order[c]), None) >>,
                    << Ref("comment", Rule, None) >>,
                    << >> >>
                 \o VarsLines(SortByName(members), defined))
           \o Sections(vars_dict, defined, c + 1)

(* generate_env_example(vars_dict, existing): the list output, which       *)
(* '\n'.join turns into the text with these lines.                         *)
generate_env_example(vars_dict, defined) ==
  << << Ref("comment", << "E", "n", "v", "i", "r", "o", "n", "m", "e", "n", "t", " ", "V", "a", "r", "i", "a", "b", "l", "e", "s" >>, None) >>,
     << Ref("comment", << "G", "e", "n", "e", "r", "a", "t", "e", "d", " ", "b", "y", " ", "e", "n", "v", "-", "a", "u", "d", "i", "t" >>, None) >>,
     << Ref("comment", << "h", "t", "t", "p", "s", ":", "/", "/", "g", "i", "t", "h", "u", "b", ".", "c", "o", "m", "/", "i", "n", "d", "i", "e", "k", "i", "t", "a", "i", "/", "e", "n", "v", "-", "a", "u", "d", "i", "t" >>, None) >>,
     << >> >>
  \o Sections(vars_dict, defined, 1)

(* generate_typescript(vars_dict): the members of ProcessEnv, each with    *)
(* the parts of its comment and its optional mark (lines 372-389).         *)
generate_typescript(vars_dict) ==
  LET sorted == SortByName(vars_dict)
  IN  [i \in 1..Len(sorted) |->
         [name |-> sorted[i].name,
          comments |->
            << guess_description(sorted[i].name, sorted[i].context) >>
            \o (IF sorted[i].sensitive THEN << << "@", "s", "e", "n", "s", "i", "t", "i", "v", "e" >> >> ELSE << >>)
            \o (IF ~ sorted[i].required
                THEN << << "@", "d", "e", "f", "a", "u", "l", "t", " " >> \o DefaultText(sorted[i]) >>
                ELSE << >>),
          optional |-> ~ sorted[i].required]]

(* generate_zod(vars_dict): the fields of the schema, each with the calls  *)
(* chained on z.string() (lines 410-426).                                  *)
generate_zod(vars_dict) ==
  LET sorted == SortByName(vars_dict)
  IN  [i \in 1..Len(sorted) |->
         [name |-> sorted[i].name,
          chain |->
            (IF ~ sorted[i].required /\ sorted[i].default # None
                  /\ sorted[i].default[1] # << >>
             THEN << [call |-> "default", arg |-> sorted[i].default[1]] >>
             ELSE IF ~ sorted[i].required
             THEN << [call |-> "optional", arg |-> << >>] >>
             ELSE << >>)
            \o << [call |-> "describe",
                   arg |-> guess_description(sorted[i].name, sorted[i].context)] >>]]

(* Lines 504-510: the categories in the order of their first variable,     *)
(* counted, then sorted by falling count (a stable sort).                  *)
Stats_by_category(vars_dict) ==
  LET firsts == SelectSeq([i \in 1..Len(vars_dict) |-> i],
                          LAMBDA i : \A j \in 1..(i - 1) :
                                       vars_dict[j].category # vars_dict[i].category)
      counted == [k \in 1..Len(firsts) |->
                    [category |-> vars_dict[firsts[k]].category,
                     count |-> Cardinality({ j \in 1..Len(vars_dict) :
                                  vars_dict[j].category
                                    = vars_dict[firsts[k]].category })]]
      Before(a, b) == \/ counted[a].count > counted[b].count
                      \/ counted[a].count = counted[b].count /\ a < b
  IN  [i \in 1..Len(counted) |->
         counted[CHOOSE j \in 1..Len(counted) :
                   Cardinality({ k \in 1..Len(counted) : Before(k, j) }) = i - 1]]

(* Lines 512-516: the required variables, by name.                         *)
Stats_required(vars_dict) ==
  LET req == SelectSeq(SortByName(vars_dict), LAMBDA v : v.required)
  IN  [i \in 1..Len(req) |-> [name |-> req[i].name, sensitive |-> req[i].sensitive]]

----------------------------------------------------------------------------
(* Runs of the command line                                                *)

(* The command lines: every combination of the flags; -o names a file      *)
(* outside the scanned files, or .env.example for the annotated template.  *)
ArgSets ==
  { a \in [check : BOOLEAN, json : BOOLEAN, stats : BOOLEAN,
           format : { "env", "typescript", "zod" },
           output : { None, Some("out.txt"), Some(".env.example") }] :
      a.output = Some(".env.example") => (a.format = "env" /\ ~ a.json) }

APP_ENV == << "A", "P", "P", "_", "E", "N", "V" >>

BUILD_DIR == << "B", "U", "I", "L", "D", "_", "D", "I", "R" >>

(* The source files of the directory, in walk order.                       *)
CliSources ==
  LET a == [path |-> root \o << "a.sh" >>, readable |-> TRUE, utf8 |-> TRUE,
            lines |-> << << Ref("sh_dash", DB_HOST, Some(D_lo)) >>, << >> >>]
      b == [path |-> root \o << "b.py" >>, readable |-> TRUE, utf8 |-> TRUE,
            lines |-> << << Ref("getenv", API_KEY, None) >>,
                         << Ref("environ_idx", DB_HOST, None) >>, << >> >>]
  IN  { << >>, << a >>, << b >>, << a, b >> }

(* A source file whose name holds a reference:  os.getenv("APP_ENV")  in   *)
(* $BUILD_DIR.py.                                                          *)
CliNamed ==
  << [path |-> root \o << "$BUILD_DIR.py" >>, readable |-> TRUE, utf8 |-> TRUE,
      lines |-> << << Ref("getenv", APP_ENV, None) >>, << >> >>] >>

(* .env.example: absent, or one line, readable or not UTF-8 text.          *)
CliExamples ==
  LET file(utf8, lines) ==
        << [path |-> ENV_EXAMPLE, readable |-> TRUE, utf8 |-> utf8,
            lines |-> lines] >>
  IN  { << >>,
        file(TRUE, << << Ref("assign", DB_HOST, Some(D_lo)) >>, << >> >>),
        file(TRUE, << << Ref("assign_sp", DB_HOST, Some(D_lo)) >> >>),
        file(TRUE, << << Ref("comment", DB_HOST \o << "=" >> \o D_lo, None) >>,
                      << >> >>),
        file(FALSE, << << Ref("assign", DB_HOST, Some(D_lo)) >>, << >> >>) }

CliDisks ==
  { NoDisk, [exists |-> TRUE, writable |-> TRUE, files |-> CliNamed] } \cup
  { [exists |-> TRUE, writable |-> w, files |-> e \o x \o src] :
      w \in BOOLEAN, e \in DotEnvFiles, x \in CliExamples, src \in CliSources }

InitCli ==
  /\ pc = "walk"
  /\ tree = << >>
  /\ file_vars = << >>
  /\ all_vars = << >>
  /\ cat_name = None
  /\ category = None
  /\ disk \in CliDisks
  /\ adds = 0
  /\ request = None
  /\ response = None
  /\ cli_pc = "idle"
  /\ args = None
  /\ existing = { }
  /\ checked = None
  /\ stdout = None
  /\ stderr = << >>
  /\ outfile = None
  /\ exit_code = None
  /\ previous = << >>

----------------------------------------------------------------------------
(* run_check and main                                                      *)

(* sorted(names) of a set of names                                         *)
SortedNames(names) ==
  [i \in 1..Cardinality(names) |->
     CHOOSE n \in names :
       Cardinality({ m \in names : StrLess(m, n) }) = i - 1]

(* A variant of run_check that reports the required variables only.        *)
run_check_RequiredOnly(vars_dict, defined) ==
  LET found_vars == Keys(SelectSeq(vars_dict, LAMBDA v : v.required))
      missing == found_vars \ defined
  IN  [passed |-> Cardinality(missing) = 0, missing |-> SortedNames(missing)]

(* run_check(vars_dict, existing)                                          *)
run_check(vars_dict, defined) ==
  LET found_vars == Keys(vars_dict)
      missing == found_vars \ defined
  IN  [passed |-> Cardinality(missing) = 0, missing |-> SortedNames(missing)]

(* A variant of CheckExit that reports success whatever the check found.   *)
CheckExit_AlwaysZero(passed) == 0

(* Lines 489-500: the exit status of check mode.                           *)
CheckExit(passed) == IF passed THEN 0 ELSE 1

(* os.walk(root) and the test of lines 250-255: the files scan_file gets.  *)
Walk(d) ==
  [i \in 1..Len(d.files) |->
     [path |-> d.files[i].path,
      readable |-> d.files[i].readable,
      lines |-> d.files[i].lines]]

(* Lines 448-462: the arguments are parsed.                                *)
ParseArgs ==
  /\ cli_pc = "idle"
  /\ \E a \in ArgSets : args' = Some(a)
  /\ cli_pc' = "root"
  /\ UNCHANGED << scanVars, catVars, disk, addVars, previous, existing, checked, stdout,
                  stderr, outfile, exit_code >>

(* Lines 464-466: the root does not exist.                                 *)
RootMissing ==
  /\ cli_pc = "root"
  /\ ~ disk.exists
  /\ stderr' = Append(stderr, [msg |-> "Error: Path does not exist"])
  /\ exit_code' = Some(1)
  /\ cli_pc' = "exit"
  /\ UNCHANGED << scanVars, catVars, disk, addVars, previous, args, existing, checked,
                  stdout, outfile >>

(* Lines 468-484: the scan, and the messages about it unless quiet.        *)
ScanRoot ==
  /\ cli_pc = "root"
  /\ disk.exists
  /\ tree' = Walk(disk)
  /\ all_vars' = scan_directory(tree')
  /\ file_vars' = << >>
  /\ pc' = "done"
  /\ existing' = check_existing_env(disk)
  /\ stderr' =
       IF args[1].check \/ args[1].json THEN stderr
       ELSE stderr \o
            << [msg |-> "Scanning"],
               [msg |-> "Found", count |-> Len(all_vars')],
               [msg |-> "Already defined", count |-> Cardinality(existing')],
               [msg |-> "Required/Optional/Sensitive",
                required |-> Len(SelectSeq(all_vars', LAMBDA v : v.required)),
                optional |-> Len(SelectSeq(all_vars', LAMBDA v : ~ v.required)),
                sensitive |-> Len(SelectSeq(all_vars', LAMBDA v : v.sensitive))] >>
  /\ cli_pc' = "mode"
  /\ UNCHANGED << catVars, disk, addVars, previous, args, checked, stdout, outfile,
                  exit_code >>

(* Lines 487-500: check mode.                                              *)
CheckMode ==
  /\ cli_pc = "mode"
  /\ args[1].check
  /\ LET r == run_check(all_vars, existing)
     IN  /\ checked' = Some(r)
         /\ exit_code' = Some(CheckExit(r.passed))
         /\ stderr' =
              IF ~ r.passed
              THEN stderr
                   \o << [msg |-> "Found undocumented", count |-> Len(r.missing)] >>
                   \o [i \in 1..Len(r.missing) |->
                         LET info == all_vars[KeyIndex(all_vars, r.missing[i])]
                         IN  [msg |-> "missing", name |-> r.missing[i],
                              required |-> info.required,
                              sensitive |-> info.sensitive,
                              files |-> FirstN(info.files, 2)]]
                   \o << [msg |-> "Run env-audit -o .env.example"] >>
              ELSE Append(stderr, [msg |-> "All documented",
                                   count |-> Len(all_vars)])
  /\ cli_pc' = "exit"
  /\ UNCHANGED << scanVars, catVars, disk, addVars, previous, args, existing, stdout,
                  outfile >>

(* Lines 503-517: statistics only.                                         *)
StatsMode ==
  /\ cli_pc = "mode"
  /\ ~ args[1].check
  /\ args[1].stats
  /\ stdout' = Some([format |-> "stats",
                     by_category |-> Stats_by_category(all_vars),
                     required |-> Stats_required(all_vars)])
  /\ exit_code' = Some(0)
  /\ cli_pc' = "exit"
  /\ UNCHANGED << scanVars, catVars, disk, addVars, previous, args, existing, checked,
                  stderr, outfile >>

(* Lines 520-527: the output in the format asked for.                      *)
Rendered(a, vars_dict, defined) ==
  IF a.json THEN [format |-> "json", vars |-> vars_dict]
  ELSE IF a.format = "typescript"
  THEN [format |-> "typescript", members |-> generate_typescript(vars_dict)]
  ELSE IF a.format = "zod"
  THEN [format |-> "zod", fields |-> generate_zod(vars_dict)]
  ELSE [format |-> "env", lines |-> generate_env_example(vars_dict, defined)]

(* Path(args.output).write_text(output) for a file of the scanned          *)
(* directory.                                                              *)
WriteText(d, path, lines) ==
  LET i == FileAt(d.files, path)
      f == [path |-> path, readable |-> TRUE, utf8 |-> TRUE, lines |-> lines]
  IN  IF i > 0
      THEN [d EXCEPT !.files[i] = [f EXCEPT !.readable = d.files[i].readable]]
      ELSE [d EXCEPT !.files = Append(d.files, f)]

(* Lines 519-534: the output is rendered and printed, or written to the    *)
(* file of -o; a write that fails ends main with a traceback.              *)
Generate ==
  /\ cli_pc = "mode"
  /\ ~ args[1].check
  /\ ~ args[1].stats
  /\ LET output == Rendered(args[1], all_vars, existing)
     IN  IF args[1].output = None
         THEN /\ stdout' = Some(output)
              /\ exit_code' = Some(0)
              /\ UNCHANGED << disk, outfile, stderr >>
         ELSE IF ~ disk.writable
         THEN /\ stderr' = Append(stderr, [msg |-> "Traceback"])
              /\ exit_code' = Some(1)
              /\ UNCHANGED << disk, outfile, stdout >>
         ELSE /\ IF args[1].output[1] = ".env.example"
                 THEN /\ disk' = WriteText(disk, ENV_EXAMPLE, output.lines)
                      /\ outfile' = outfile
                 ELSE /\ outfile' = Some([path |-> args[1].output[1],
                                          text |-> output])
                      /\ disk' = disk
              /\ stderr' = Append(stderr, [msg |-> "Written to",
                                           path |-> args[1].output[1]])
              /\ exit_code' = Some(0)
              /\ stdout' = stdout
  /\ cli_pc' = "exit"
  /\ UNCHANGED << scanVars, catVars, addVars, previous, args, existing, checked >>

(* The runs of main on one directory                                       *)
MaxRuns == 2

(* The path the -o of the run that has ended wrote with success.           *)
Wrote ==
  IF /\ args # None /\ args[1].output # None
     /\ ~ args[1].check /\ ~ args[1].stats
     /\ exit_code = Some(0)
  THEN args[1].output
  ELSE None

(* main is run again on the directory, a new process: nothing is left of   *)
(* the run before but the files it wrote.                                  *)
Restart ==
  /\ cli_pc = "exit"
  /\ Len(previous) < MaxRuns - 1
  /\ previous' = Append(previous, Wrote)
  /\ cli_pc' = "idle"
  /\ pc' = "walk"
  /\ tree' = << >>
  /\ file_vars' = << >>
  /\ all_vars' = << >>
  /\ args' = None
  /\ existing' = { }
  /\ checked' = None
  /\ stdout' = None
  /\ stderr' = << >>
  /\ outfile' = None
  /\ exit_code' = None
  /\ UNCHANGED << catVars, disk, addVars >>

NextCli ==
  \/ ParseArgs \/ RootMissing \/ ScanRoot \/ CheckMode \/ StatsMode \/ Generate
  \/ Restart

SpecCli == InitCli /\ [][NextCli]_vars

(* C5: run_check returns passed = TRUE iff the names of the records are a  *)
(* subset of the existing definitions, and its missing list holds exactly  *)
(* the names of the records that are not in that set; a scan that found no *)
(* variable (an empty tree among them) passes.                             *)
C5_CheckPassesIffSubset ==
  checked # None =>
    LET names == { all_vars[i].name : i \in 1..Len(all_vars) }
        r == checked[1]
    IN  /\ r.passed <=> (names \subseteq existing)
        /\ { r.missing[i] : i \in 1..Len(r.missing) } = names \ existing
        /\ Len(r.missing) = Cardinality(names \ existing)
        /\ names = { } => r.passed
        /\ tree = << >> => r.passed

(* run_check has returned a missing name although another name of the     *)
(* scan is defined.                                                        *)
C5_Witness ==
  /\ checked # None
  /\ ~ checked[1].passed
  /\ Len(checked[1].missing) = 1
  /\ Len(all_vars) = 2
  /\ existing # { }

(* main has ended through an exception.                                    *)
Crashed == \E i \in 1..Len(stderr) : stderr[i].msg = "Traceback"

(* C7: a root that does not exist ends main with exit status 1 and nothing *)
(* is scanned or rendered; with --check the exit status is 0 when every    *)
(* name of the scan is in the existing definitions and 1 otherwise; every  *)
(* other run that ends without an exception exits with 0.                  *)
C7_ExitCodes ==
  /\ ~ disk.exists =>
        /\ pc = "walk" /\ tree = << >> /\ all_vars = << >>
        /\ checked = None /\ stdout = None /\ outfile = None
        /\ cli_pc = "exit" => exit_code = Some(1)
  /\ (cli_pc = "exit" /\ disk.exists /\ args[1].check) =>
        exit_code = Some(IF { all_vars[i].name : i \in 1..Len(all_vars) }
                              \subseteq existing
                         THEN 0 ELSE 1)
  /\ (cli_pc = "exit" /\ disk.exists /\ ~ args[1].check /\ ~ Crashed) =>
        exit_code = Some(0)
  /\ cli_pc # "exit" => exit_code = None

(* main has exited with 1 in check mode after a scan that found a name no  *)
(* dotenv file defines.                                                    *)
C7_Witness ==
  /\ cli_pc = "exit"
  /\ disk.exists
  /\ args[1].check
  /\ pc = "done"
  /\ all_vars # << >>
  /\ exit_code = Some(1)

----------------------------------------------------------------------------
(* Command substitutions as defaults                                       *)

(* A default text that begins with $( or with a backquote.                 *)
Command(d) ==
  \/ Len(d) >= 2 /\ d[1] = "$" /\ d[2] = "("
  \/ Len(d) >= 1 /\ d[1] = "BQ"

(* The matches of every line of the files that could be read: file by     *)
(* file and line by line, the matches in the order scan_file meets them.   *)
TreeMatches(files) ==
  [f \in 1..Len(files) |->
     IF files[f].readable
     THEN [l \in 1..Len(files[f].lines) |-> LineMatches(files[f].lines[l])]
     ELSE << >>]

(* Where name n matched in the first m files: file, line and rank in the   *)
(* line.                                                                   *)
MatchesOf(table, n, m) ==
  UNION { UNION { { << f, l, k >> :
                      k \in { j \in 1..Len(table[f][l]) :
                                table[f][l][j].m.name = n } } :
                  l \in 1..Len(table[f]) } :
          f \in 1..m }

(* The default texts captured by the matches at.                           *)
Captured(table, at) ==
  { table[w[1]][w[2]][w[3]].m.raw[1] :
      w \in { v \in at :
                LET t == table[v[1]][v[2]][v[3]]
                IN  PATTERNS[t.p].default_group # None /\ t.m.raw # None } }

(* C11: a captured default that begins with $( or a backquote is           *)
(* discarded.  The match still creates or extends the record of its name   *)
(* and is counted as an occurrence, but it gives no default: the record's  *)
(* default is never a command substitution, and the record is required     *)
(* unless another occurrence, on the same line, on another line or in      *)
(* another file, captured a literal default.                               *)
C11_CommandDefaultDiscarded ==
  \A table \in { TreeMatches(tree) } :
     \A n \in { DB_HOST, API_KEY, HOME } :
        \A at \in { MatchesOf(table, n, Len(MergedFiles(n))) } :
           \A caught \in { Captured(table, at) } :
              (\E d \in caught : Command(d)) =>
                /\ HasKey(all_vars, n)
                /\ LET rec == all_vars[KeyIndex(all_vars, n)]
                   IN  /\ rec.occurrences = Cardinality(at)
                       /\ rec.default # None => ~ Command(rec.default[1])
                       /\ rec.required = ~ (\E d \in caught : Literal(d))

(* The scan has returned a required record, without a default, of a name   *)
(* whose only captured defaults are command substitutions; each of its     *)
(* matches was counted.                                                    *)
C11_Witness ==
  /\ pc = "done"
  /\ \E i \in 1..Len(all_vars) :
        LET ds == TreeDefaults(all_vars[i].name, tree)
        IN  /\ ds # << >>
            /\ \A k \in 1..Len(ds) : Command(ds[k])
            /\ all_vars[i].required
            /\ all_vars[i].default = None
            /\ all_vars[i].occurrences >= 4

----------------------------------------------------------------------------
(* The files of a record                                                   *)

(* C12: for every record, at every point of the aggregation and in the     *)
(* result of scan_directory, files holds root-relative paths of scanned    *)
(* files, no path twice, and exactly the paths of the files in which the   *)
(* name matched at least once, however many lines or rules matched there.  *)
C12_FilesOncePerFile ==
  \A table \in { TreeMatches(tree) } :
     \A i \in 1..Len(all_vars) :
        \A at \in { MatchesOf(table, all_vars[i].name,
                              Len(MergedFiles(all_vars[i].name))) } :
           LET rec == all_vars[i]
           IN  /\ \A j, k \in 1..Len(rec.files) : rec.files[j] = rec.files[k] => j = k
               /\ { rec.files[j] : j \in 1..Len(rec.files) }
                    = { relative_to(tree[w[1]].path, root) : w \in at }
               /\ \A j \in 1..Len(rec.files) :
                     \E f \in 1..Len(tree) : root \o rec.files[j] = tree[f].path

(* The scan has returned a record of a name that matched in two files,     *)
(* several times in one of them: two paths for more than two occurrences.  *)
C12_Witness ==
  /\ pc = "done"
  /\ \E i \in 1..Len(all_vars) :
        /\ Len(all_vars[i].files) = 2
        /\ all_vars[i].files[1] # all_vars[i].files[2]
        /\ all_vars[i].occurrences > 2

----------------------------------------------------------------------------
(* Records only grow                                                       *)

(* s is a prefix of t.                                                     *)
IsPrefix(s, t) ==
  /\ Len(s) <= Len(t)
  /\ SubSeq(t, 1, Len(s)) = s

C13_CountedAtLeastOnce ==
  \A i \in 1..Len(all_vars) : all_vars[i].occurrences >= 1

C13_RecordGrows ==
  \A i \in 1..Len(all_vars) :
     /\ i <= Len(all_vars')
     /\ all_vars'[i].name = all_vars[i].name
     /\ all_vars'[i].occurrences >= all_vars[i].occurrences
     /\ IsPrefix(all_vars[i].files, all_vars'[i].files)

(* C13: during a scan records only grow.  A record, once created, is in    *)
(* all_vars after every later step, under the same name; its occurrence    *)
(* count is at least 1 and never decreases; its files keep the earlier     *)
(* entries in place, paths are only appended.                              *)
C13_RecordsOnlyGrow ==
  [] C13_CountedAtLeastOnce /\ [][C13_RecordGrows]_vars

(* The record the first file created has been extended by the second file: *)
(* a path appended after the first one, more occurrences than the first    *)
(* file gave.                                                              *)
C13_Witness ==
  /\ Len(tree) = 2
  /\ \E i \in 1..Len(all_vars) :
        LET first == scan_file(tree[1])
        IN  /\ HasKey(first, all_vars[i].name)
            /\ all_vars[i].files = << relative_to(tree[1].path, root),
                                      relative_to(tree[2].path, root) >>
            /\ all_vars[i].occurrences
                 > Len(first[KeyIndex(first, all_vars[i].name)].occurrences)

----------------------------------------------------------------------------
(* Files that cannot be read                                               *)

(* The tree without the files that cannot be read.                         *)
WithoutUnreadable(files) == SelectSeq(files, LAMBDA f : f.readable)

(* C14: a file in scope that cannot be read never fails the scan.          *)
(* scan_file returns no record for it, the walk goes on with the next      *)
(* file, and the records scan_directory returns are those of the same tree *)
(* without that file.                                                      *)
C14_UnreadableFileSkipped ==
  /\ \A f \in 1..Len(tree) : ~ tree[f].readable => scan_file(tree[f]) = << >>
  /\ (tree # << >> /\ ~ tree[Len(tree)].readable)
        => (file_vars = << >> /\ pc \in { "walk", "done" })
  /\ pc = "done" => all_vars = scan_directory(WithoutUnreadable(tree))

(* The scan has returned the records of a file walked after a file that    *)
(* could not be read and that holds a reference with a literal default.    *)
C14_Witness ==
  /\ pc = "done"
  /\ Len(tree) = 2
  /\ ~ tree[1].readable
  /\ tree[1].lines[1][1].dflt = Some(D_lo)
  /\ tree[2].readable
  /\ all_vars # << >>

----------------------------------------------------------------------------
(* The annotated template of a scan                                        *)

MaxTemplateRefs == 3   \* references, one a file, of a rendered tree

DB_NAME == << "D", "B", "_", "N", "A", "M", "E" >>

API_URL == << "A", "P", "I", "_", "U", "R", "L" >>

S3_BUCKET == << "S", "3", "_", "B", "U", "C", "K", "E", "T" >>

MAIL_TO == << "M", "A", "I", "L", "_", "T", "O" >>

LOG_LEVEL == << "L", "O", "G", "_", "L", "E", "V", "E", "L" >>

FEATURE_X == << "F", "E", "A", "T", "U", "R", "E", "_", "X" >>

(* Names of every category, two of them of the category database.          *)
TemplateNames ==
  { DB_NAME, DB_HOST, API_KEY, API_URL, S3_BUCKET, MAIL_TO, LOG_LEVEL,
    FEATURE_X, APP_ENV }

TemplateRefs ==
  { Ref("environ_idx", n, None) : n \in TemplateNames \ { DB_HOST } }   \* os.environ["N"]
  \cup { Ref("getenv", DB_HOST, Some(D_lo)) }             \* os.getenv("DB_HOST", "lo")

(* The trees of 1..n files of one line, a reference each.                  *)
TemplateTrees(n) ==
  UNION { { [f \in 1..k |->
               [path |-> root \o << FileNames[f] >>, readable |-> TRUE,
                lines |-> << << refs[f] >>, << >> >>]] :
            refs \in [1..k -> TemplateRefs] } :
          k \in 1..n }

(* Lines 474-475 of main: a tree is scanned, and the dotenv files define   *)
(* some names.                                                             *)
ScanTemplateTree ==
  /\ pc = "walk"
  /\ tree = << >>
  /\ \E t \in TemplateTrees(MaxTemplateRefs) : tree' = t
  /\ all_vars' = scan_directory(tree')
  /\ file_vars' = << >>
  /\ pc' = "done"
  /\ \E e \in { { }, { DB_HOST } } : existing' = e
  /\ UNCHANGED << catVars, disk, addVars, previous, cli_pc, args, checked, stdout,
                  stderr, outfile, exit_code >>

(* Line 527 of main: generate_env_example(vars_dict, existing).            *)
RenderTemplate ==
  /\ pc = "done"
  /\ stdout = None
  /\ stdout' = Some([format |-> "env",
                     lines |-> generate_env_example(all_vars, existing)])
  /\ UNCHANGED << scanVars, catVars, disk, addVars, previous, cli_pc, args, existing,
                  checked, stderr, outfile, exit_code >>

NextTemplate == ScanTemplateTree \/ RenderTemplate

SpecTemplate == Init /\ [][NextTemplate]_vars

(* A line NAME=example of a template.                                      *)
IsAssign(line) == Len(line) = 1 /\ line[1].form = "assign"

RuleLine == << Ref("comment", Rule, None) >>

(* Line i of a template is the title of the section of category            *)
(* category_order[c], between two rules.                                   *)
IsHeader(lines, i, c) ==
  /\ 1 < i /\ i < Len(lines)
  /\ lines[i - 1] = RuleLine
  /\ lines[i] = << Ref("comment", CategoryUpper(category_order[c]), None) >>
  /\ lines[i + 1] = RuleLine

Headers(lines) ==
  { i \in 1..Len(lines) : \E c \in 1..Len(category_order) : IsHeader(lines, i, c) }

HeaderCategory(lines, i) ==
  CHOOSE c \in 1..Len(category_order) : IsHeader(lines, i, c)

(* The category whose section holds line i: that of the last title above   *)
(* it, 0 when there is none.                                               *)
SectionOf(lines, i) ==
  LET above == { h \in Headers(lines) : h < i }
  IN  IF above = { } THEN 0
      ELSE HeaderCategory(lines, CHOOSE h \in above : \A g \in above : g <= h)

(* C15: in the annotated template every record is exactly one line         *)
(* NAME=example, under the section of its category; the sections come in   *)
(* the order database, auth, api, cloud, email, logging, feature, general, *)
(* a category without a record has no section, and the names of a section  *)
(* are in ascending lexicographic order.                                   *)
C15_TemplateLayout ==
  (stdout # None /\ stdout[1].format = "env") =>
    \A lines \in { stdout[1].lines } :
    \A assigns \in { { i \in 1..Len(lines) : IsAssign(lines[i]) } } :
    \A headers \in { Headers(lines) } :
    \A section \in { [i \in assigns |-> SectionOf(lines, i)] } :
        /\ \A r \in 1..Len(all_vars) :
              Cardinality({ i \in assigns : lines[i][1].name = all_vars[r].name }) = 1
        /\ \A i \in assigns :
              /\ HasKey(all_vars, lines[i][1].name)
              /\ LET rec == all_vars[KeyIndex(all_vars, lines[i][1].name)]
                 IN  /\ LineText(lines[i])
                          = rec.name \o << "=" >> \o guess_example(rec.name, rec.default)
                     /\ section[i] # 0
                     /\ category_order[section[i]] = rec.category
                     /\ rec.category = categorize_var(rec.name)
        /\ \A g, h \in headers :
              g < h => HeaderCategory(lines, g) < HeaderCategory(lines, h)
        /\ \A h \in headers :
              \E r \in 1..Len(all_vars) :
                 all_vars[r].category = category_order[HeaderCategory(lines, h)]
        /\ \A i, j \in assigns :
              (i < j /\ section[i] = section[j])
                 => StrLess(lines[i][1].name, lines[j][1].name)

(* The template of a scan that found DB_NAME before DB_HOST, and a name of *)
(* another category between them, has been rendered.                       *)
C15_Witness ==
  /\ stdout # None
  /\ Len(all_vars) = 3
  /\ all_vars[1].name = DB_NAME
  /\ all_vars[2].category # "database"
  /\ all_vars[3].name = DB_HOST
  /\ Cardinality(Headers(stdout[1].lines)) = 2

----------------------------------------------------------------------------
(* The order of the walk                                                   *)

(* The orders in which n files can be visited.                             *)
VisitOrders(n) ==
  { p \in [1..n -> 1..n] : \A i, j \in 1..n : p[i] = p[j] => i = j }

(* The fields of a record that do not depend on which file came first.     *)
Unordered(rec) ==
  [name |-> rec.name,
   occurrences |-> rec.occurrences,
   files |-> { rec.files[j] : j \in 1..Len(rec.files) },
   required |-> rec.required]

(* C16: whatever the order in which the files of a tree are visited, the   *)
(* scan returns records of the same names, and for each name the same      *)
(* occurrence count, the same set of files and the same required flag.     *)
C16_VisitOrderIndependent ==
  pc = "done" =>
    \A p \in VisitOrders(Len(tree)) :
       LET other == scan_directory([i \in 1..Len(tree) |-> tree[p[i]]])
       IN  { Unordered(all_vars[i]) : i \in 1..Len(all_vars) }
             = { Unordered(other[i]) : i \in 1..Len(other) }

(* The scan has returned an optional record of two files, the second of    *)
(* which gives no default; visited in the other order, the files and the   *)
(* context of the record differ.                                           *)
C16_Witness ==
  /\ pc = "done"
  /\ Len(tree) = 2
  /\ \E i \in 1..Len(all_vars) :
        LET other == scan_directory(<< tree[2], tree[1] >>)
            o     == other[KeyIndex(other, all_vars[i].name)]
        IN  /\ Len(all_vars[i].files) = 2
            /\ o.files # all_vars[i].files
            /\ o.context # all_vars[i].context
            /\ scan_file(tree[2])[1].default = None
            /\ ~ all_vars[i].required

----------------------------------------------------------------------------
(* Generate, then check                                                    *)

(* C17: after a run of main has written the annotated template of the      *)
(* directory to its .env.example, the next run, with --check, passes:      *)
(* every name the scan finds is in the set check_existing_env returns,     *)
(* and main exits with 0.                                                  *)
C17_GenerateThenCheckPasses ==
  (/\ cli_pc = "exit"
   /\ previous # << >>
   /\ previous[Len(previous)] = Some(".env.example")
   /\ args[1].check)
  => /\ checked # None
     /\ checked[1].passed
     /\ { all_vars[i].name : i \in 1..Len(all_vars) } \subseteq existing
     /\ exit_code = Some(0)

----------------------------------------------------------------------------
(* A name is added once                                                    *)

(* The lines of .env.example in a directory, none when there is no file.   *)
ExampleLines(d) ==
  LET i == FileAt(d.files, ENV_EXAMPLE)
  IN  IF i > 0 THEN d.files[i].lines ELSE << >>

(* The calls of env_audit_add with a name all return an error and leave    *)
(* the directory as it is.                                                 *)
RefusedIn(d, var) ==
  \A value \in AddValues, description \in AddDescriptions :
     LET r == env_audit_add(d, var, value, description)
     IN  "error" \in DOMAIN r.result /\ r.disk = d

(* C18: a call of env_audit_add that succeeds, for a name of the form      *)
(* [A-Z][A-Z0-9_]*, only appends: the lines .env.example had, or the       *)
(* header when there was no file, begin the new content; after the call    *)
(* the name is in the set check_existing_env returns, and a later call     *)
(* with the same name, whatever the value, returns an error and leaves the *)
(* file unchanged.                                                         *)
C18_AddedOnce ==
  [][ (/\ adds' = adds + 1
       /\ "success" \in DOMAIN response'[1]
       /\ WellFormed(request'[1].var))
      => /\ IsPrefix(IF FileAt(disk.files, ENV_EXAMPLE) > 0
                     THEN ExampleLines(disk) ELSE Header,
                     ExampleLines(disk'))
         /\ request'[1].var \in check_existing_env(disk')
         /\ RefusedIn(disk', request'[1].var) ]_vars

====
